---- MODULE Spec2Model ----
(***************************************************************************)
(* Verification model of the PII redaction core of safe-redactr:           *)
(* positional redaction / unredaction, semantic redaction / unredaction,   *)
(* candidate reconciliation and the encrypted mapping vault.               *)
(*                                                                         *)
(* Strings are sequences of UTF-16 code units (naturals), so that          *)
(* charCodeAt, toUpperCase, btoa and the hash functions compute what the   *)
(* code computes.  A string literal is written as a tuple of codes with    *)
(* the text in a comment.                                                  *)
(***************************************************************************)
EXTENDS Integers, Sequences, FiniteSets, TLC

VARIABLES
    \* ---- positional session (PIIDetector component state) ----
    inputText,          \* useState inputText
    detectedText,       \* the text the detector saw when detectedEntities was produced
    detectedEntities,   \* useState detectedEntities (all selected)
    redactedText,       \* useState redactedText
    redactionMap,       \* useState redactionMap : ordered Map token -> original
    warned,             \* console.warn log of the last redaction
    engine,             \* which redactor produced redactedText
    phase,              \* position of the session
    \* ---- a caller of reconcile ----
    candidates,         \* the caller's entity list (the objects reconcile is handed)
    recCall,            \* the list as it was when reconcile was called
    recAccepted,        \* reconcile's accepted list `out` after overlap resolution
    recResult,          \* the list reconcile returned
    recPhase,
    \* ---- the semantic PIIDetector session ----
    semInput,           \* inputText
    semEntities,        \* the selected detected entities
    irreversible,       \* the irreversible-mode checkbox
    semRedacted,        \* redactedText
    semanticMap,        \* redactionMap (a SemanticRedactionMap)
    semMode,            \* how semRedacted was produced
    semMapArg,          \* the map last handed to unredactTextSemantic
    semUnredacted,      \* what unredactTextSemantic returned
    selection,          \* selectedText, selectionStart, selectionEnd of the redacted textarea
    toast,              \* title of the last toast
    semPhase,
    \* ---- the encrypted mapping file ----
    artifact,           \* the downloaded .piimap.json file, or NoFile
    tampers,            \* number of changes made to the file outside the program
    importLog,          \* the last encrypted import: passphrase, decryptJSON's outcome
    \* ---- a file picked in a file input, and what its handler did with it ----
    picked,             \* the File object: name, type, size, content
    loadLog,            \* the steps the handler took on it, in order
    \* ---- a BrowserPIIDetector and the async calls running on it ----
    classifier,         \* this.classifier: "null" or "loaded"
    isLoading,          \* this.isLoading
    calls,              \* position of each pending call
    invoked             \* what this.classifier was each time it was called as a function

posVars == <<inputText, detectedText, detectedEntities, redactedText, redactionMap,
             warned, engine, phase>>

recVars == <<candidates, recCall, recAccepted, recResult, recPhase>>

semVars == <<semInput, semEntities, irreversible, semRedacted, semanticMap, semMode,
             semMapArg, semUnredacted, selection, toast, semPhase>>

vaultVars == <<artifact, tampers, importLog>>

hostVars == <<picked, loadLog, classifier, isLoading, calls, invoked>>

vars == <<posVars, recVars, semVars, vaultVars, hostVars>>

NoFile == [kind |-> "none"]
NoImport == [kind |-> "none"]
NoLoad == [handler |-> "none"]
NoSelection == [selectedText |-> <<>>, selectionStart |-> 0, selectionEnd |-> 0]

\* a component that takes no part in a specification stays parked
PosIdle ==
    /\ inputText = <<>> /\ detectedText = <<>> /\ detectedEntities = <<>>
    /\ redactedText = <<>> /\ redactionMap = <<>> /\ warned = <<>>
    /\ engine = "none" /\ phase = "off"

RecIdle ==
    /\ candidates = <<>> /\ recCall = <<>> /\ recAccepted = <<>> /\ recResult = <<>>
    /\ recPhase = "off"

SemIdle ==
    /\ semInput = <<>> /\ semEntities = <<>> /\ irreversible = FALSE
    /\ semRedacted = <<>> /\ semanticMap = <<>> /\ semMode = "none"
    /\ semMapArg = <<>> /\ semUnredacted = <<>> /\ selection = NoSelection /\ toast = "" /\ semPhase = "off"

VaultIdle == artifact = NoFile /\ tampers = 0 /\ importLog = NoImport

HostIdle ==
    /\ picked = NoFile /\ loadLog = NoLoad
    /\ classifier = "null" /\ isLoading = FALSE /\ calls = <<>> /\ invoked = <<>>

(***************************************************************************)
(* Bounds of the model.                                                    *)
(***************************************************************************)
MaxDocLen == 2
MaxEnts == 2
MaxCands == 2
MaxWords == 2
MaxTampers == 1

(***************************************************************************)
(* JavaScript string primitives.                                           *)
(***************************************************************************)
Min(a, b) == IF a < b THEN a ELSE b
Max(a, b) == IF a > b THEN a ELSE b

\* String.prototype.slice(a, b): negative indexes count from the end.
slice(s, a, b) ==
    LET n    == Len(s)
        from == IF a < 0 THEN Max(n + a, 0) ELSE Min(a, n)
        to   == IF b < 0 THEN Max(n + b, 0) ELSE Min(b, n)
    IN  IF from >= to THEN <<>> ELSE SubSeq(s, from + 1, to)

\* String.prototype.substring(a, b): negatives clamp to 0, arguments swap.
substring(s, a, b) ==
    LET n  == Len(s)
        a0 == Min(Max(a, 0), n)
        b0 == Min(Max(b, 0), n)
        lo == Min(a0, b0)
        hi == Max(a0, b0)
    IN  IF lo >= hi THEN <<>> ELSE SubSeq(s, lo + 1, hi)

\* String.prototype.indexOf(needle, from): first 0-based index >= from, or -1.
indexOfFrom(hay, needle, from) ==
    LET n     == Len(needle)
        cands == {i \in from..(Len(hay) - n) : SubSeq(hay, i + 1, i + n) = needle}
    IN  IF cands = {} THEN -1 ELSE CHOOSE i \in cands : \A j \in cands : i <= j

indexOf(hay, needle) == indexOfFrom(hay, needle, 0)

\* /\s/ on the code units the model uses: space, tab, newline, carriage return.
IsSpace(c) == c \in {32, 9, 10, 13}

RECURSIVE trimStart(_)
trimStart(s) == IF s # <<>> /\ IsSpace(Head(s)) THEN trimStart(Tail(s)) ELSE s

RECURSIVE trimEnd(_)
trimEnd(s) ==
    IF s # <<>> /\ IsSpace(s[Len(s)]) THEN trimEnd(SubSeq(s, 1, Len(s) - 1)) ELSE s

\* String.prototype.trim
trim(s) == trimEnd(trimStart(s))

upperChar(c) == IF c >= 97 /\ c <= 122 THEN c - 32 ELSE c
lowerChar(c) == IF c >= 65 /\ c <= 90 THEN c + 32 ELSE c

\* String.prototype.toUpperCase / toLowerCase (ASCII range)
toUpperCase(s) == [i \in 1..Len(s) |-> upperChar(s[i])]
toLowerCase(s) == [i \in 1..Len(s) |-> lowerChar(s[i])]

\* String.prototype.split(sep).join(rep): replace every occurrence, left to
\* right, never rescanning the inserted text.
RECURSIVE splitJoin(_, _, _)
splitJoin(s, sep, rep) ==
    IF sep = <<>> THEN s
    ELSE LET i == indexOf(s, sep)
         IN  IF i = -1 THEN s
             ELSE SubSeq(s, 1, i) \o rep
                  \o splitJoin(SubSeq(s, i + Len(sep) + 1, Len(s)), sep, rep)

\* number of (non-overlapping, left to right) occurrences of needle in s
RECURSIVE countOcc(_, _)
countOcc(s, needle) ==
    IF needle = <<>> THEN 0
    ELSE LET i == indexOf(s, needle)
         IN  IF i = -1 THEN 0
             ELSE 1 + countOcc(SubSeq(s, i + Len(needle) + 1, Len(s)), needle)

(***************************************************************************)
(* btoa: base64 of a Latin-1 string.                                       *)
(***************************************************************************)
b64char(v) ==
    IF v < 26 THEN 65 + v
    ELSE IF v < 52 THEN 97 + (v - 26)
    ELSE IF v < 62 THEN 48 + (v - 52)
    ELSE IF v = 62 THEN 43 ELSE 47

RECURSIVE btoa(_)
btoa(s) ==
    IF Len(s) = 0 THEN <<>>
    ELSE IF Len(s) = 1 THEN
        << b64char(s[1] \div 4), b64char((s[1] % 4) * 16), 61, 61 >>
    ELSE IF Len(s) = 2 THEN
        << b64char(s[1] \div 4), b64char((s[1] % 4) * 16 + (s[2] \div 16)),
           b64char((s[2] % 16) * 4), 61 >>
    ELSE
        << b64char(s[1] \div 4), b64char((s[1] % 4) * 16 + (s[2] \div 16)),
           b64char((s[2] % 16) * 4 + (s[3] \div 64)), b64char(s[3] % 64) >>
        \o btoa(SubSeq(s, 4, Len(s)))

\* btoa throws InvalidCharacterError on a code unit above 255
btoaThrows(s) == \E i \in 1..Len(s) : s[i] > 255

(***************************************************************************)
(* Ordered Map<string,string>: a sequence of <<key, value>> pairs in       *)
(* insertion order; set() overwrites the value of an existing key in place.*)
(***************************************************************************)
MapHas(m, k) == \E i \in 1..Len(m) : m[i][1] = k
MapGet(m, k) == m[CHOOSE i \in 1..Len(m) : m[i][1] = k][2]
MapSet(m, k, v) ==
    IF MapHas(m, k)
    THEN [i \in 1..Len(m) |-> IF m[i][1] = k THEN <<k, v>> ELSE m[i]]
    ELSE Append(m, <<k, v>>)

(***************************************************************************)
(* Labels and literals.                                                    *)
(***************************************************************************)
\* the characters of a label
LabelChars(l) ==
    CASE l = "PERSON"      -> <<80, 69, 82, 83, 79, 78>>
      [] l = "ORG"         -> <<79, 82, 71>>
      [] l = "ADDRESS"     -> <<65, 68, 68, 82, 69, 83, 83>>
      [] l = "EMAIL"       -> <<69, 77, 65, 73, 76>>
      [] l = "PHONE"       -> <<80, 72, 79, 78, 69>>
      [] l = "ABN"         -> <<65, 66, 78>>
      [] l = "TFN"         -> <<84, 70, 78>>
      [] l = "CREDIT_CARD" -> <<67, 82, 69, 68, 73, 84, 95, 67, 65, 82, 68>>
      [] l = "OTHER"       -> <<79, 84, 72, 69, 82>>
LBRACKET == <<91>>                                          \* "["
RBRACKET == <<93>>                                          \* "]"
UNDERSCORE == <<95>>                                        \* "_"

(***************************************************************************)
(* placeholders.ts : makePlaceholder / simpleHash.                         *)
(* 32-bit values are kept as a pair <<hi, lo>> of 16-bit halves.           *)
(***************************************************************************)
digit36(d) == IF d < 10 THEN 48 + d ELSE 97 + (d - 10)

\* Number.prototype.toString(36) of the non-negative value hi * 65536 + lo
RECURSIVE toString36(_, _)
toString36(hi, lo) ==
    LET r   == hi % 36
        t   == r * 65536 + lo
        qhi == hi \div 36
        qlo == t \div 36
    IN  IF qhi = 0 /\ qlo = 0 THEN <<digit36(t % 36)>>
        ELSE toString36(qhi, qlo) \o <<digit36(t % 36)>>

\* one round of  hash = ((hash << 5) - hash) + char; hash = hash & hash
RECURSIVE simpleHashLoop(_, _, _)
simpleHashLoop(str, i, h) ==
    IF i > Len(str) THEN h
    ELSE LET lo1 == h[2] * 31 + str[i]
             hi1 == (h[1] * 31 + (lo1 \div 65536)) % 65536
         IN  simpleHashLoop(str, i + 1, <<hi1, lo1 % 65536>>)

\* Math.abs of the signed 32-bit value held in <<hi, lo>>
abs32(h) ==
    IF h[1] < 32768 THEN h
    ELSE << ((65535 - h[1]) + (IF h[2] = 0 THEN 1 ELSE 0)) % 65536,
            (65536 - h[2]) % 65536 >>

simpleHash(str) ==
    LET h == abs32(simpleHashLoop(str, 1, <<0, 0>>))
    IN  toUpperCase(substring(toString36(h[1], h[2]), 0, 8))

\* rand: the characters Math.random().toString(36) yields for this call
makePlaceholder(label, text, deterministic, rand) ==
    IF ~deterministic
    THEN LBRACKET \o LabelChars(label) \o UNDERSCORE \o toUpperCase(substring(rand, 0, 8))
         \o RBRACKET
    ELSE LBRACKET \o LabelChars(label) \o UNDERSCORE \o simpleHash(toLowerCase(text))
         \o RBRACKET

(***************************************************************************)
(* redactText, revision with the inline window search.                     *)
(***************************************************************************)
window == 64

RECURSIVE pickIdx(_, _, _)
pickIdx(seq, keep, i) ==
    IF i > Len(seq) THEN <<>>
    ELSE (IF i \in keep THEN <<seq[i]>> ELSE <<>>) \o pickIdx(seq, keep, i + 1)

\* entities.filter((e, i, arr) => i === arr.findIndex(same start and end))
uniqueBySpan(entities) ==
    pickIdx(entities,
            {i \in 1..Len(entities) :
                \A j \in 1..(i - 1) :
                    ~(entities[j].start = entities[i].start /\ entities[j].end = entities[i].end)},
            1)

RECURSIVE insertDesc(_, _)
insertDesc(sorted, e) ==
    IF sorted = <<>> THEN <<e>>
    ELSE IF Head(sorted).start >= e.start
         THEN <<Head(sorted)>> \o insertDesc(Tail(sorted), e)
         ELSE <<e>> \o sorted

\* [...xs].sort((a, b) => b.start - a.start): stable, descending by start
RECURSIVE sortDescByStart(_)
sortDescByStart(seq) ==
    IF seq = <<>> THEN <<>>
    ELSE insertDesc(sortDescByStart(SubSeq(seq, 1, Len(seq) - 1)), seq[Len(seq)])

\* the entity is skipped by the loop body at the current output
unmatched(output, e) ==
    /\ indexOf(slice(output, Max(0, e.start - window), Min(Len(output), e.end + window)),
               e.text) = -1
    /\ trim(slice(output, e.start, e.end)) # trim(e.text)

\* the token with the flag ignored
redactTokenRandom(e, deterministic, rand) ==
    LabelChars(e.label) \o UNDERSCORE \o toUpperCase(slice(rand, 2, 8))

redactToken(e, deterministic, rand) ==
    IF deterministic
    THEN LabelChars(e.label) \o UNDERSCORE \o toUpperCase(slice(btoa(e.text), 0, 6))
    ELSE LabelChars(e.label) \o UNDERSCORE \o toUpperCase(slice(rand, 2, 8))

\* redactStep without the skip of an unmatched entity
redactStepNoSkip(acc, e, deterministic, rand) ==
    LET output  == acc.output
        left    == Max(0, e.start - window)
        snippet == slice(output, left, Min(Len(output), e.end + window))
        local   == indexOf(snippet, e.text)
        start   == IF local # -1 THEN left + local ELSE e.start
        end     == IF local # -1 THEN start + Len(e.text) ELSE e.end
        token   == redactToken(e, deterministic, rand)
    IN  [acc EXCEPT
            !.map    = MapSet(@, token, e.text),
            !.output = slice(output, 0, start) \o LBRACKET \o token \o RBRACKET
                       \o slice(output, end, Len(output))]

\* one iteration of the for loop; acc = [output, map, warned, threw]
redactStep(acc, e, deterministic, rand) ==
    LET output  == acc.output
        left    == Max(0, e.start - window)
        snippet == slice(output, left, Min(Len(output), e.end + window))
        local   == indexOf(snippet, e.text)
        start   == IF local # -1 THEN left + local ELSE e.start
        end     == IF local # -1 THEN start + Len(e.text) ELSE e.end
        token   == redactToken(e, deterministic, rand)
    IN  IF acc.threw THEN acc
        ELSE IF unmatched(output, e)
        THEN [acc EXCEPT !.warned = Append(@, e.text)]
        ELSE IF deterministic /\ btoaThrows(e.text)
        THEN [acc EXCEPT !.threw = TRUE]
        ELSE [acc EXCEPT
                !.map    = MapSet(@, token, e.text),
                !.output = slice(output, 0, start) \o LBRACKET \o token \o RBRACKET
                           \o slice(output, end, Len(output))]

RECURSIVE redactLoop(_, _, _, _, _)
redactLoop(acc, sorted, i, deterministic, rands) ==
    IF i > Len(sorted) THEN acc
    ELSE redactLoop(redactStep(acc, sorted[i], deterministic, rands[i]),
                    sorted, i + 1, deterministic, rands)

redactText(text, entities, deterministic, rands) ==
    IF Len(entities) = 0
    THEN [output |-> text, map |-> <<>>, warned |-> <<>>, threw |-> FALSE]
    ELSE redactLoop([output |-> text, map |-> <<>>, warned |-> <<>>, threw |-> FALSE],
                    sortDescByStart(uniqueBySpan(entities)), 1, deterministic, rands)

(***************************************************************************)
(* redact.ts : rescueSpan and the redactText built on it.                  *)
(***************************************************************************)
windowSize == 96

NoSpan == [start |-> -1, end |-> -1, found |-> FALSE]

rescueSpan(doc, e, w) ==
    IF slice(doc, e.start, e.end) = e.text
    THEN [start |-> e.start, end |-> e.end, found |-> TRUE]
    ELSE LET left == Max(0, e.start - w)
             right == Min(Len(doc), e.end + w)
             hood == slice(doc, left, right)
             idx  == indexOf(hood, e.text)
         IN  IF idx >= 0
             THEN [start |-> left + idx, end |-> left + idx + Len(e.text), found |-> TRUE]
             ELSE NoSpan

\* one iteration; getPlaceholder(e) is ph
rescueStep(acc, e, ph) ==
    LET output == acc.output
        fixed  == rescueSpan(output, e, windowSize)
        start  == IF fixed.found THEN fixed.start ELSE e.start
        end    == IF fixed.found THEN fixed.end ELSE e.end
    IN  IF slice(output, start, end) # e.text
        THEN [acc EXCEPT !.warned = Append(@, e.text)]
        ELSE [acc EXCEPT !.output = slice(output, 0, start) \o ph
                                    \o slice(output, end, Len(output))]

RECURSIVE rescueLoop(_, _, _, _)
rescueLoop(acc, entities, i, phs) ==
    IF i > Len(entities) THEN acc
    ELSE rescueLoop(rescueStep(acc, entities[i], phs[i]), entities, i + 1, phs)

\* the exported redactText(text, entities, getPlaceholder) of redact.ts
redactTextRescue(text, entities, phs) ==
    rescueLoop([output |-> text, map |-> <<>>, warned |-> <<>>, threw |-> FALSE],
               entities, 1, phs)

(***************************************************************************)
(* PIIDetector handlers of the positional session.                         *)
(***************************************************************************)
RECURSIVE inlineLoop(_, _, _)
inlineLoop(acc, sorted, i) ==
    IF i > Len(sorted) THEN acc
    ELSE LET e  == sorted[i]
             ph == makePlaceholder(e.label, e.text, TRUE, <<>>)
         IN  inlineLoop([acc EXCEPT
                            !.map    = MapSet(@, ph, e.text),
                            !.output = substring(acc.output, 0, e.start) \o ph
                                       \o substring(acc.output, e.end, Len(acc.output))],
                        sorted, i + 1)

\* handleRedact, reversible and deterministic: offsets are used as they are
handleRedactInline(text, entities) ==
    inlineLoop([output |-> text, map |-> <<>>, warned |-> <<>>, threw |-> FALSE],
               sortDescByStart(entities), 1)

\* handleUnredact: redactionMap.forEach(result = result.split(placeholder).join(original))
RECURSIVE unredactLoop(_, _, _)
unredactLoop(result, map, i) ==
    IF i > Len(map) THEN result
    ELSE unredactLoop(splitJoin(result, map[i][1], map[i][2]), map, i + 1)

handleUnredactText(text, map) == unredactLoop(text, map, 1)

(***************************************************************************)
(* Positional session: inputs and actions.                                 *)
(***************************************************************************)
PosAlphabet == {97, 65, 32}                                 \* "a", "A", " "
FILLER == <<120>>                                           \* "x"

RECURSIVE StringsUpTo(_, _)
StringsUpTo(alphabet, n) ==
    IF n = 0 THEN {<<>>}
    ELSE LET shorter == StringsUpTo(alphabet, n - 1)
         IN  shorter \cup {Append(s, c) : s \in shorter, c \in alphabet}

PosDocs == StringsUpTo(PosAlphabet, MaxDocLen) \ {<<>>}

PosLabels == {"PERSON"}

\* what a detector can report on text: entities whose text is the span's text
ExactEntities(text, labels) ==
    {[label |-> l, text |-> SubSeq(text, s + 1, e), start |-> s, end |-> e] :
        l \in labels, s \in 0..(Len(text) - 1), e \in 1..Len(text)}
    \cap {x \in [label : labels, text : StringsUpTo(PosAlphabet, MaxDocLen),
                 start : 0..MaxDocLen, end : 0..MaxDocLen] : x.start < x.end}

RECURSIVE ListsUpTo(_, _)
ListsUpTo(S, n) ==
    IF n = 0 THEN {<<>>}
    ELSE LET shorter == ListsUpTo(S, n - 1)
         IN  shorter \cup {Append(l, x) : l \in shorter, x \in S}

\* lengths of the blocks of text a user inserts between detection and redaction
InsertLens == {1, window + 1, windowSize + 1}

\* offsets at which the block is inserted (every document has a first character)
InsertAt == {0, 1}

Repeat(s, k) == [i \in 1..k |-> s[1]]

NoRands == [i \in 1..(MaxEnts + 1) |-> <<>>]

PosInit ==
    /\ inputText \in PosDocs
    /\ detectedText = <<>>
    /\ detectedEntities = <<>>
    /\ redactedText = <<>>
    /\ redactionMap = <<>>
    /\ warned = <<>>
    /\ engine = "none"
    /\ phase = "idle"
    /\ RecIdle /\ SemIdle /\ VaultIdle /\ HostIdle

\* handleDetect: returns early on blank input; otherwise
\* setDetectedEntities(entities), all of them selected
Detect ==
    /\ phase = "idle"
    /\ trim(inputText) # <<>>
    /\ \E ents \in ListsUpTo(ExactEntities(inputText, PosLabels), MaxEnts) :
          detectedEntities' = ents
    /\ detectedText' = inputText
    /\ phase' = "detected"
    /\ UNCHANGED <<inputText, redactedText, redactionMap, warned, engine>>
    /\ UNCHANGED <<recVars, semVars, vaultVars, hostVars>>

\* the user types a block into the input area after detection, at the top of
\* the text or after its first character: setInputText
EditInsert ==
    /\ phase = "detected"
    /\ \E pos \in InsertAt, k \in InsertLens :
          inputText' = SubSeq(inputText, 1, pos) \o Repeat(FILLER, k)
                       \o SubSeq(inputText, pos + 1, Len(inputText))
    /\ phase' = "edited"
    /\ UNCHANGED <<detectedText, detectedEntities, redactedText, redactionMap, warned, engine>>
    /\ UNCHANGED <<recVars, semVars, vaultVars, hostVars>>

ApplyRedaction(result, name) ==
    \E r \in {result} :
        /\ ~r.threw
        /\ redactedText' = r.output
        /\ redactionMap' = r.map
        /\ warned' = r.warned
        /\ engine' = name
        /\ phase' = "redacted"
        /\ UNCHANGED <<inputText, detectedText, detectedEntities>>
        /\ UNCHANGED <<recVars, semVars, vaultVars, hostVars>>

\* a caller passing the input text and the detected entities to redactText
RedactLib ==
    /\ phase \in {"detected", "edited"}
    /\ ApplyRedaction(redactText(inputText, detectedEntities, TRUE, NoRands), "lib")

\* handleRedact with the inline substring replacement
RedactInline ==
    /\ phase \in {"detected", "edited"}
    /\ ApplyRedaction(handleRedactInline(inputText, detectedEntities), "inline")

\* redactText of redact.ts on the entities sorted descending, makePlaceholder tokens
RedactRescue ==
    /\ phase \in {"detected", "edited"}
    /\ LET sorted == sortDescByStart(detectedEntities)
           phs    == [i \in 1..Len(sorted) |->
                        makePlaceholder(sorted[i].label, sorted[i].text, TRUE, <<>>)]
       IN  ApplyRedaction(redactTextRescue(inputText, sorted, phs), "rescue")

\* handleUnredact
Unredact ==
    /\ phase = "redacted"
    /\ redactedText' = handleUnredactText(redactedText, redactionMap)
    /\ phase' = "unredacted"
    /\ UNCHANGED <<inputText, detectedText, detectedEntities, redactionMap, warned, engine>>
    /\ UNCHANGED <<recVars, semVars, vaultVars, hostVars>>

PosNext == Detect \/ EditInsert \/ RedactLib \/ RedactInline \/ RedactRescue \/ Unredact

SpecPos == PosInit /\ [][PosNext]_vars

(***************************************************************************)
(* Claims about positional redaction.                                      *)
(***************************************************************************)
NoEdit == inputText = detectedText

\* the placeholder text an engine writes for entity e
PlaceholderOf(e, eng) ==
    IF eng = "lib" THEN LBRACKET \o redactToken(e, TRUE, <<>>) \o RBRACKET
    ELSE makePlaceholder(e.label, e.text, TRUE, <<>>)

Disjoint(ents) ==
    \A i, j \in 1..Len(ents) :
        i # j => (ents[i].end <= ents[j].start \/ ents[j].end <= ents[i].start)

\* no entity text starts or ends with a blank
Trimmed(ents) == \A i \in 1..Len(ents) : trim(ents[i].text) = ents[i].text

\* the entity lists the positional claims are stated for: pairwise disjoint
\* spans, texts without surrounding blanks
WellFormed(ents) == Disjoint(ents) /\ Trimmed(ents)

\* C1: positional round trip.  After redaction of an unedited document with
\* exact, pairwise disjoint entities, replacing every token of the returned
\* map by its original text gives back the document.
C1_PositionalRoundTrip ==
    (phase = "unredacted" /\ NoEdit /\ WellFormed(detectedEntities)
        /\ engine \in {"lib", "inline"})
        => redactedText = inputText

\* C1 for the inline handler alone: the round trip of handleRedact / handleUnredact
C1_InlineRoundTrip ==
    (phase = "unredacted" /\ NoEdit /\ WellFormed(detectedEntities) /\ engine = "inline")
        => redactedText = inputText

\* the document with exactly the spans of ents replaced, offsets shifted by k
RECURSIVE SpansReplaced(_, _, _, _, _)
SpansReplaced(doc, sortedDesc, i, eng, k) ==
    IF i > Len(sortedDesc) THEN doc
    ELSE LET e == sortedDesc[i]
         IN  SpansReplaced(SubSeq(doc, 1, e.start + k) \o PlaceholderOf(e, eng)
                           \o SubSeq(doc, e.end + k + 1, Len(doc)),
                           sortedDesc, i + 1, eng, k)

\* C3: positional redaction of exact, disjoint entities replaces exactly the
\* spans [start, end) and leaves every other character where it was.
C3_ExactSpansReplaced ==
    (phase = "redacted" /\ NoEdit /\ engine \in {"lib", "rescue"}
        /\ WellFormed(detectedEntities))
        => redactedText = SpansReplaced(inputText, sortDescByStart(detectedEntities), 1, engine, 0)

\* C3 for the rescueSpan revision alone
C3_RescueExactSpans ==
    (phase = "redacted" /\ NoEdit /\ engine = "rescue" /\ WellFormed(detectedEntities))
        => redactedText = SpansReplaced(inputText, sortDescByStart(detectedEntities), 1, engine, 0)

\* e.text occurs nowhere in the window of w characters around [start, end)
\* of doc, and the span itself does not hold the text (up to surrounding blanks)
Absent(document, e, w) ==
    \E doc \in {document} :
        /\ \A i \in Max(0, e.start - w)..(Min(Len(doc), e.end + w) - Len(e.text)) :
              \E k \in 1..Len(e.text) : doc[i + k] # e.text[k]
        /\ trim(slice(doc, e.start, e.end)) # trim(e.text)

\* accumulator of the loop of redactText after its first n entities
LibPrefix(n) ==
    redactLoop([output |-> inputText, map |-> <<>>, warned |-> <<>>, threw |-> FALSE],
               SubSeq(sortDescByStart(uniqueBySpan(detectedEntities)), 1, n),
               1, TRUE, NoRands)

LibSorted == sortDescByStart(uniqueBySpan(detectedEntities))

\* entity i of the loop finds its text absent
LibAbsentAt(i) == Absent(LibPrefix(i - 1).output, LibSorted[i], window)

\* entity j of the loop has its text exactly at its span
LibExactAt(j) ==
    LET e == LibSorted[j] out == LibPrefix(j - 1).output
    IN  e.start + Len(e.text) = e.end /\ e.end <= Len(out)
        /\ SubSeq(out, e.start + 1, e.end) = e.text

\* entities of sorted whose text is exactly at their span when their turn comes;
\* acc[n] is the accumulator of the loop after n entities
ExactTurns(sorted, acc) ==
    {j \in 1..Len(sorted) :
        /\ sorted[j].start + Len(sorted[j].text) = sorted[j].end
        /\ sorted[j].end <= Len(acc[j - 1].output)
        /\ SubSeq(acc[j - 1].output, sorted[j].start + 1, sorted[j].end) = sorted[j].text}

\* every entity of absent leaves output and map as they were, and every later
\* entity found at its span is replaced
SkipsAbsent(sorted, acc, absent) ==
    \A i \in absent :
        /\ acc[i].output = acc[i - 1].output
        /\ acc[i].map = acc[i - 1].map
        /\ \A j \in ExactTurns(sorted, acc) : j > i => acc[j].output # acc[j - 1].output

\* C8: an entity whose text is neither at [start, end) nor in the search
\* window is skipped: the document and the map are as they were before it, and
\* the entities after it are still processed up to the end of the list (one
\* found at its span is replaced and, where the engine keeps a map, recorded).
C8_AbsentEntitySkipped ==
    LET start == [output |-> inputText, map |-> <<>>, warned |-> <<>>, threw |-> FALSE]
    IN  /\ (phase = "redacted" /\ engine = "lib") =>
              \A sorted \in {LibSorted} :
              \A acc \in {[n \in 0..Len(sorted) |->
                              redactLoop(start, SubSeq(sorted, 1, n), 1, TRUE, NoRands)]} :
              \A absent \in {{i \in 1..Len(sorted) :
                                 Absent(acc[i - 1].output, sorted[i], window)}} :
                  /\ redactedText = acc[Len(sorted)].output
                  /\ redactionMap = acc[Len(sorted)].map
                  /\ SkipsAbsent(sorted, acc, absent)
                  /\ \A i \in absent :
                        \A j \in ExactTurns(sorted, acc) :
                            j > i =>
                              /\ MapHas(acc[j].map, redactToken(sorted[j], TRUE, <<>>))
                              /\ MapHas(redactionMap, redactToken(sorted[j], TRUE, <<>>))
        /\ (phase = "redacted" /\ engine = "rescue") =>
              \A sorted \in {sortDescByStart(detectedEntities)} :
              \A phs \in {[i \in 1..Len(sorted) |->
                              makePlaceholder(sorted[i].label, sorted[i].text, TRUE, <<>>)]} :
              \A acc \in {[n \in 0..Len(sorted) |->
                              rescueLoop(start, SubSeq(sorted, 1, n), 1, phs)]} :
              \A absent \in {{i \in 1..Len(sorted) :
                                 Absent(acc[i - 1].output, sorted[i], windowSize)}} :
                  /\ redactedText = acc[Len(sorted)].output
                  /\ SkipsAbsent(sorted, acc, absent)

\* C8 witness: an entity was skipped as absent and a later one was replaced
C8_Witness ==
    /\ phase = "redacted" /\ engine = "lib"
    /\ WellFormed(detectedEntities)
    /\ \E i \in 1..Len(LibSorted) :
          /\ LibAbsentAt(i)
          /\ \E j \in (i + 1)..Len(LibSorted) : LibExactAt(j)
    /\ warned # <<>>
    /\ redactionMap # <<>>

\* the document was edited by inserting k <= w characters at or before the
\* start of the single detected entity, none of them a character of its text
ShiftedBy(k, w) ==
    /\ Len(detectedEntities) = 1
    /\ Trimmed(detectedEntities)
    /\ k >= 1 /\ k <= w
    /\ \E pos \in InsertAt :
          /\ pos <= detectedEntities[1].start
          /\ inputText = SubSeq(detectedText, 1, pos) \o Repeat(FILLER, k)
                         \o SubSeq(detectedText, pos + 1, Len(detectedText))
    /\ \A i \in 1..Len(detectedEntities[1].text) : detectedEntities[1].text[i] # FILLER[1]

\* C9: rescue tolerance.  After k characters were inserted before the entity,
\* redaction replaces exactly the shifted occurrence [start + k, end + k).
C9_RescueShifted ==
    \A k \in InsertLens :
        (phase = "redacted" /\ engine \in {"lib", "rescue"}
            /\ ShiftedBy(k, IF engine = "lib" THEN window ELSE windowSize))
        => redactedText = SpansReplaced(inputText, detectedEntities, 1, engine, k)

\* C9 for the rescueSpan revision alone
C9_RescueShiftedRescue ==
    \A k \in InsertLens :
        (phase = "redacted" /\ engine = "rescue" /\ ShiftedBy(k, windowSize))
        => redactedText = SpansReplaced(inputText, detectedEntities, 1, engine, k)

(***************************************************************************)
(* Regular-expression primitives used by normalizeEntity.                  *)
(***************************************************************************)
IsUpper(c)  == c >= 65 /\ c <= 90
IsLetter(c) == IsUpper(c) \/ (c >= 97 /\ c <= 122)
IsWord(c)   == IsLetter(c) \/ (c >= 48 /\ c <= 57) \/ c = 95

\* \b between s[i] and s[i + 1]  (i in 0..Len(s))
isBoundary(s, i) ==
    (i > 0 /\ IsWord(s[i])) # (i < Len(s) /\ IsWord(s[i + 1]))

\* the literal w matches s at offset i, ignoring case
matchCI(s, i, w) ==
    /\ i + Len(w) <= Len(s)
    /\ \A k \in 1..Len(w) : lowerChar(s[i + k]) = lowerChar(w[k])

\* /\bw\b/i.test(s)
testWordCI(s, w) ==
    \E i \in 0..(Len(s) - Len(w)) :
        isBoundary(s, i) /\ matchCI(s, i, w) /\ isBoundary(s, i + Len(w))

\* text.replace(/\s+/g, ' ')
RECURSIVE collapseSpaces(_)
collapseSpaces(s) ==
    IF s = <<>> THEN <<>>
    ELSE IF IsSpace(Head(s))
         THEN <<32>> \o collapseSpaces(trimStart(s))
         ELSE <<Head(s)>> \o collapseSpaces(Tail(s))

\* number of letters of s from offset i on (the run [A-Za-z]+ at i)
RECURSIVE letterRun(_, _)
letterRun(s, i) ==
    IF i < Len(s) /\ IsLetter(s[i + 1]) THEN 1 + letterRun(s, i + 1) ELSE 0

W_CO    == <<67, 111>>                                      \* "Co"
W_COWAN == <<67, 111, 119, 97, 110>>                        \* "Cowan"

\* /(\b[A-Za-z]+)\s+Co\b/gi matches the whitespace-collapsed s at offset i
coMatchAt(s, i) ==
    LET n == letterRun(s, i)
    IN  /\ n > 0
        /\ isBoundary(s, i)
        /\ i + n < Len(s) /\ s[i + n + 1] = 32
        /\ matchCI(s, i + n + 1, W_CO)
        /\ isBoundary(s, i + n + 3)

\* t.replace(/(\b[A-Za-z]+)\s+Co\b/gi, '$1 Cowan') from offset `from` on
RECURSIVE replaceCo(_, _)
replaceCo(s, from) ==
    LET hits == {i \in from..Len(s) : coMatchAt(s, i)}
    IN  IF hits = {} THEN SubSeq(s, from + 1, Len(s))
        ELSE LET i == CHOOSE h \in hits : \A g \in hits : h <= g
                 n == letterRun(s, i)
             IN  SubSeq(s, from + 1, i + n) \o <<32>> \o W_COWAN
                 \o replaceCo(s, i + n + 3)

BusinessWords ==
    { <<80, 116, 121, 32, 76, 116, 100>>,                                  \* "Pty Ltd"
      <<76, 116, 100>>,                                                    \* "Ltd"
      <<84, 114, 117, 115, 116>>,                                          \* "Trust"
      <<85, 110, 105, 116, 32, 84, 114, 117, 115, 116>>,                   \* "Unit Trust"
      <<83, 117, 112, 101, 114, 97, 110, 110, 117, 97, 116, 105, 111, 110,
        32, 70, 117, 110, 100>>,                                           \* "Superannuation Fund"
      <<69, 110, 103, 105, 110, 101, 101, 114, 105, 110, 103>>,            \* "Engineering"
      <<83, 111, 108, 117, 116, 105, 111, 110, 115>>,                      \* "Solutions"
      <<68, 101, 112, 97, 114, 116, 109, 101, 110, 116>>,                  \* "Department"
      <<67, 111, 117, 110, 99, 105, 108>>,                                 \* "Council"
      <<66, 97, 110, 107>> }                                               \* "Bank"

\* the business-suffix test of normalizeEntity
hasBusinessSuffix(t) == \E w \in BusinessWords : testWordCI(t, w)

\* /^\p{Lu}{2,}$/u  (upper-case letters of the ASCII range)
isAllCapsToken(t) == Len(t) >= 2 /\ \A i \in 1..Len(t) : IsUpper(t[i])

OrgFragments ==
    { <<97, 117, 115, 116, 114, 97, 108, 105, 97, 110>>,                   \* "australian"
      <<101, 116, 104, 105, 99, 97, 108>>,                                 \* "ethical"
      <<109, 105, 116, 99, 104, 101, 108, 108>>,                           \* "mitchell"
      <<108, 97, 114, 97>>,                                                \* "lara"
      <<115, 117, 112, 101, 114, 97, 110, 110, 117, 97, 116, 105, 111, 110>>, \* "superannuation"
      <<100, 101, 116, 97, 105, 108, 115>>,                                \* "details"
      <<99, 108, 105, 101, 110, 116>>,                                     \* "client"
      <<102, 117, 110, 100>>,                                              \* "fund"
      <<109, 97, 110, 97, 103, 101, 100>>,                                 \* "managed"
      <<115, 117, 112, 101, 114>>,                                         \* "super"
      <<108, 105, 102, 101>>,                                              \* "life"
      <<116, 112, 100>>,                                                   \* "tpd"
      <<105, 110, 99, 111, 109, 101>>,                                     \* "income"
      <<112, 114, 111, 116, 101, 99, 116, 105, 111, 110>>,                 \* "protection"
      <<98, 97, 108, 97, 110, 99, 101>>,                                   \* "balance"
      <<111, 112, 116, 105, 111, 110>> }                                   \* "option"

isOrgFragment(t) == toLowerCase(t) \in OrgFragments

Honorifics ==
    << <<77, 114>>, <<77, 114, 115>>, <<77, 115>>, <<68, 114>>,
       <<80, 114, 111, 102>> >>                             \* Mr | Mrs | Ms | Dr | Prof

\* /\b(Mr|Mrs|Ms|Dr|Prof)\.?\s+/i matches at offset i with a dot after the title
honorificDotAt(t, i) ==
    /\ isBoundary(t, i)
    /\ \E h \in 1..Len(Honorifics) :
          LET n == Len(Honorifics[h])
          IN  /\ matchCI(t, i, Honorifics[h])
              /\ i + n + 2 <= Len(t)
              /\ t[i + n + 1] = 46 /\ t[i + n + 2] = 32

\* ... and without one
honorificPlainAt(t, i) ==
    /\ isBoundary(t, i)
    /\ \E h \in 1..Len(Honorifics) :
          LET n == Len(Honorifics[h])
          IN  /\ matchCI(t, i, Honorifics[h])
              /\ i + n + 1 <= Len(t)
              /\ t[i + n + 1] = 32

\* t.replace(/\b(Mr|Mrs|Ms|Dr|Prof)\.?\s+/i, '$1 '): the first match loses its dot
normaliseHonorific(t) ==
    LET hits == {i \in 0..Len(t) : honorificDotAt(t, i) \/ honorificPlainAt(t, i)}
    IN  IF hits = {} THEN t
        ELSE LET i == CHOOSE h \in hits : \A g \in hits : h <= g
             IN  IF honorificDotAt(t, i)
                 THEN LET d == CHOOSE k \in (i + 1)..Len(t) :
                                  t[k] = 46 /\ \A j \in (i + 1)..(k - 1) : IsLetter(t[j])
                      IN  SubSeq(t, 1, d - 1) \o SubSeq(t, d + 1, Len(t))
                 ELSE t

(***************************************************************************)
(* reconcile.ts : normalizeEntity, filterByConfidence, reconcile.          *)
(* An entity is [text, label, start, end, score, source]; scores are in    *)
(* hundredths, NoScore stands for an absent score.                         *)
(***************************************************************************)
NoScore == -1

labelMap(l) ==
    CASE l = "PER"          -> "PERSON"
      [] l = "PERSON"       -> "PERSON"
      [] l = "ORG"          -> "ORG"
      [] l = "ORGANIZATION" -> "ORG"
      [] l = "MISC"         -> "ORG"
      [] l = "LOC"          -> "ADDRESS"
      [] l = "LOCATION"     -> "ADDRESS"
      [] OTHER              -> l

THRESH(l) ==
    CASE l = "PERSON"  -> 55
      [] l = "ORG"     -> 70
      [] l = "ADDRESS" -> 70
      [] l = "LOC"     -> 70
      [] OTHER         -> 80

\* e.score ?? 0
scoreOr0(e) == IF e.score = NoScore THEN 0 ELSE e.score

\* the text of e after the whitespace and "Co" steps
normText(e) == replaceCo(trim(collapseSpaces(e.text)), 0)

\* normalizeEntity: [kept, entity, input] -- the normalized copy (when kept)
\* and the caller's object as the call leaves it
normalizeEntity(e) ==
    LET t0 == trim(collapseSpaces(e.text))
        t  == replaceCo(t0, 0)
    IN  IF Len(t0) < 2
        THEN [kept |-> FALSE, entity |-> e, input |-> e]
        ELSE IF hasBusinessSuffix(t)
        THEN [kept |-> TRUE, entity |-> [e EXCEPT !.label = "ORG", !.text = t], input |-> e]
        ELSE IF e.label = "PERSON" /\ isAllCapsToken(t)
        THEN [kept |-> FALSE, entity |-> e, input |-> e]
        ELSE IF e.label = "ORG" /\ isOrgFragment(t)
        THEN [kept |-> FALSE, entity |-> e, input |-> e]
        ELSE [kept   |-> TRUE,
              entity |-> [e EXCEPT !.label = labelMap(e.label), !.text = normaliseHonorific(t)],
              input  |-> [e EXCEPT !.label = labelMap(e.label)]]

filterByConfidence(e) ==
    IF e.source = "regex" THEN TRUE ELSE scoreOr0(e) >= THRESH(e.label)

RECURSIVE insertAsc(_, _)
insertAsc(sorted, e) ==
    IF sorted = <<>> THEN <<e>>
    ELSE IF Head(sorted).start <= e.start
         THEN <<Head(sorted)>> \o insertAsc(Tail(sorted), e)
         ELSE <<e>> \o sorted

\* norm.sort((a, b) => a.start - b.start): stable, ascending by start
RECURSIVE sortAscByStart(_)
sortAscByStart(seq) ==
    IF seq = <<>> THEN <<>>
    ELSE insertAsc(sortAscByStart(SubSeq(seq, 1, Len(seq) - 1)), seq[Len(seq)])

\* entities.map(normalizeEntity).filter(Boolean).filter(filterByConfidence), sorted
RECURSIVE normKept(_, _)
normKept(entities, i) ==
    IF i > Len(entities) THEN <<>>
    ELSE LET n == normalizeEntity(entities[i])
         IN  (IF n.kept /\ filterByConfidence(n.entity) THEN <<n.entity>> ELSE <<>>)
             \o normKept(entities, i + 1)

normSorted(entities) == sortAscByStart(normKept(entities, 1))

\* text.trim().split(/\s+/).length
RECURSIVE countTokens(_)
countTokens(t) ==
    LET s == trim(t)
        sp == {i \in 1..Len(s) : IsSpace(s[i])}
    IN  IF sp = {} THEN 1
        ELSE LET i == CHOOSE k \in sp : \A j \in sp : k <= j
             IN  1 + countTokens(SubSeq(s, i + 1, Len(s)))

overlapLen(e, o) == Max(0, Min(e.end, o.end) - Max(e.start, o.start))
minSpan(e, o)    == Min(e.end - e.start, o.end - o.start)

\* iouLike < 0.4, with iouLike = overlap / Math.max(1, minSpan)
minorOverlap(e, o) == overlapLen(e, o) * 10 < 4 * Max(1, minSpan(e, o))

\* Rule B looking at the incoming entity only
ruleBIncomingOnly(e, o) ==
    e.label # o.label /\ e.label = "PERSON" /\ countTokens(e.text) >= 2

\* Rule B: labels differ and one side is a PERSON of at least two tokens
ruleB(e, o) ==
    \/ (e.label # o.label /\ e.label = "PERSON" /\ countTokens(e.text) >= 2)
    \/ (e.label # o.label /\ o.label = "PERSON" /\ countTokens(o.text) >= 2)

\* Rule C: e replaces o
eWins(e, o) ==
    (e.source = "regex" /\ o.source = "model") \/ (scoreOr0(e) > scoreOr0(o))

\* the inner for loop over out for the new entity e, from index i on
RECURSIVE resolveOne(_, _, _)
resolveOne(out, e, i) ==
    IF i > Len(out) THEN Append(out, e)
    ELSE LET o == out[i]
         IN  IF minorOverlap(e, o) THEN resolveOne(out, e, i + 1)
             ELSE IF ruleB(e, o) THEN resolveOne(out, e, i + 1)
             ELSE IF eWins(e, o) THEN [out EXCEPT ![i] = e]
             ELSE out

RECURSIVE resolveOverlaps(_, _, _)
resolveOverlaps(out, norm, k) ==
    IF k > Len(norm) THEN out
    ELSE resolveOverlaps(resolveOne(out, norm[k], 1), norm, k + 1)

\* the accepted list `out` after the overlap loop
accepted(entities) == resolveOverlaps(<<>>, normSorted(entities), 1)

dedupeKey(e) == <<e.start, e.end, e.label, toLowerCase(e.text)>>

\* out.filter(first occurrence of its key)
dedupeExact(out) ==
    pickIdx(out,
            {i \in 1..Len(out) :
                \A j \in 1..(i - 1) : dedupeKey(out[j]) # dedupeKey(out[i])},
            1)

\* filtered.filter(not a PERSON whose text is inside a longer PERSON text)
dedupePersons(filtered) ==
    pickIdx(filtered,
            {i \in 1..Len(filtered) :
                \/ filtered[i].label # "PERSON"
                \/ ~ \E j \in 1..Len(filtered) :
                        /\ filtered[j].label = "PERSON"
                        /\ j # i
                        /\ indexOf(toLowerCase(filtered[j].text),
                                   toLowerCase(filtered[i].text)) # -1
                        /\ Len(filtered[j].text) > Len(filtered[i].text)},
            1)

\* the address-collapse loop, i is the 1-based index of cur
RECURSIVE collapseAddresses(_, _)
collapseAddresses(collapsed, i) ==
    IF i > Len(collapsed) THEN collapsed
    ELSE LET prev == collapsed[i - 1]
             cur  == collapsed[i]
         IN  IF prev.label = "ADDRESS" /\ cur.label = "ADDRESS"
                /\ cur.start - prev.end < 5
             THEN collapseAddresses(
                     SubSeq(collapsed, 1, i - 2)
                     \o <<[prev EXCEPT !.text = prev.text \o <<32>> \o cur.text,
                                       !.end = cur.end]>>
                     \o SubSeq(collapsed, i + 1, Len(collapsed)),
                     i)
             ELSE collapseAddresses(collapsed, i + 1)

\* the final loop: first entity of each (label, text)
uniqueByLabelText(collapsed) ==
    pickIdx(collapsed,
            {i \in 1..Len(collapsed) :
                \A j \in 1..(i - 1) :
                    ~(collapsed[j].label = collapsed[i].label
                      /\ collapsed[j].text = collapsed[i].text)},
            1)

\* the passes of reconcile after the overlap loop
reconcileTail(out) ==
    uniqueByLabelText(collapseAddresses(dedupePersons(dedupeExact(out)), 2))

reconcile(entities) == reconcileTail(accepted(entities))

\* the caller's list as reconcile leaves it
inputAfterReconcile(entities) ==
    [i \in 1..Len(entities) |-> normalizeEntity(entities[i]).input]

(***************************************************************************)
(* semanticUtils.ts : stableId, normalizeForKey.                           *)
(***************************************************************************)
hexDigit(d) == IF d < 10 THEN 48 + d ELSE 65 + (d - 10)

\* n.toString(16).toUpperCase() for 0 <= n < 65536
RECURSIVE toHex(_)
toHex(n) == IF n < 16 THEN <<hexDigit(n)>> ELSE toHex(n \div 16) \o <<hexDigit(n % 16)>>

\* (h >>> 0).toString(16).toUpperCase() of the 32-bit value <<hi, lo>>
toString16(hi, lo) ==
    IF hi = 0 THEN toHex(lo)
    ELSE toHex(hi) \o << hexDigit(lo \div 4096), hexDigit((lo \div 256) % 16),
                         hexDigit((lo \div 16) % 16), hexDigit(lo % 16) >>

\* djb2:  h = ((h << 5) + h) + input.charCodeAt(i); h |= 0
RECURSIVE stableIdLoop(_, _, _)
stableIdLoop(input, i, h) ==
    IF i > Len(input) THEN h
    ELSE LET lo1 == h[2] * 33 + input[i]
             hi1 == (h[1] * 33 + (lo1 \div 65536)) % 65536
         IN  stableIdLoop(input, i + 1, <<hi1, lo1 % 65536>>)

\* stableId(input, length): 5381 = 0 * 65536 + 5381
stableId(input, length) ==
    LET h == stableIdLoop(input, 1, <<0, 5381>>)
    IN  slice(toString16(h[1], h[2]), 0, Max(2, length))

IsKeyChar(c) == (c >= 97 /\ c <= 122) \/ (c >= 48 /\ c <= 57)

\* .replace(/[^a-z0-9]+/g, ' ')
RECURSIVE blankNonKey(_)
blankNonKey(s) ==
    IF s = <<>> THEN <<>>
    ELSE IF IsKeyChar(Head(s)) THEN <<Head(s)>> \o blankNonKey(Tail(s))
    ELSE LET rest == Tail(s)
             k    == CHOOSE n \in 0..Len(rest) :
                        /\ \A j \in 1..n : ~IsKeyChar(rest[j])
                        /\ (n = Len(rest) \/ IsKeyChar(rest[n + 1]))
         IN  <<32>> \o blankNonKey(SubSeq(rest, k + 1, Len(rest)))

\* normalizeForKey on text of the ASCII range (NFKD and the diacritics strip
\* leave such text as it is)
normalizeForKey(s) == collapseSpaces(trim(blankNonKey(toLowerCase(s))))

(***************************************************************************)
(* semanticMap.ts : buildRedactionEntry, createRedactionMap.               *)
(* A RedactionMap is a sequence of <<key, entry>> in insertion order.      *)
(***************************************************************************)
\* s.split(/\s+/) of a trimmed, non-empty string
RECURSIVE splitWs(_)
splitWs(s) ==
    LET sp == {i \in 1..Len(s) : IsSpace(s[i])}
    IN  IF sp = {} THEN <<s>>
        ELSE LET i == CHOOSE k \in sp : \A j \in sp : k <= j
             IN  <<SubSeq(s, 1, i - 1)>> \o splitWs(trimStart(SubSeq(s, i, Len(s))))

\* parts.slice(1).join(' ')
RECURSIVE joinSpace(_)
joinSpace(parts) ==
    IF parts = <<>> THEN <<>>
    ELSE IF Len(parts) = 1 THEN parts[1]
    ELSE parts[1] \o <<32>> \o joinSpace(Tail(parts))

buildRedactionEntry(text, label, canonical) ==
    IF label = "PERSON"
    THEN LET parts == IF trim(text) = <<>> THEN <<<<>>>> ELSE splitWs(trim(text))
         IN  [label |-> "PERSON", full |-> text, first |-> parts[1],
              last |-> IF Len(parts) > 1 THEN joinSpace(Tail(parts)) ELSE <<>>,
              canonical |-> canonical]
    ELSE [label |-> label, full |-> text, canonical |-> canonical]

\* key = `${e.label}_${id}`
\* the key without the label
semanticKeyValueOnly(e) == stableId(normalizeForKey(e.text), 6)

semanticKey(e) ==
    LabelChars(e.label) \o UNDERSCORE \o stableId(normalizeForKey(e.text), 6)

RECURSIVE createLoop(_, _, _)
createLoop(map, entities, i) ==
    IF i > Len(entities) THEN map
    ELSE LET e   == entities[i]
             key == semanticKey(e)
         IN  createLoop(IF MapHas(map, key) THEN map
                        ELSE Append(map, <<key, buildRedactionEntry(e.text, e.label,
                                                    normalizeForKey(e.text))>>),
                        entities, i + 1)

createRedactionMap(entities) == createLoop(<<>>, entities, 1)

(***************************************************************************)
(* semanticRedact : placeholder, replaceAllWordBoundary, redactTextSemantic *)
(***************************************************************************)
V_FULL  == <<70, 85, 76, 76>>             \* "FULL"
V_FIRST == <<70, 73, 82, 83, 84>>         \* "FIRST"
V_LAST  == <<76, 65, 83, 84>>             \* "LAST"
VARIANTS == <<V_FULL, V_FIRST, V_LAST>>
COLON == <<58>>

\* `[${labelAndId}:${variant}]`
placeholder(labelAndId, variant) ==
    LBRACKET \o labelAndId \o COLON \o variant \o RBRACKET

\* /\bneedle\b/ matches haystack at offset i (flag i when caseInsensitive)
wordMatchAt(haystack, i, needle, caseInsensitive) ==
    /\ isBoundary(haystack, i)
    /\ IF caseInsensitive THEN matchCI(haystack, i, needle)
       ELSE /\ i + Len(needle) <= Len(haystack)
            /\ SubSeq(haystack, i + 1, i + Len(needle)) = needle
    /\ isBoundary(haystack, i + Len(needle))

\* haystack.replace(rx, replacement) with the flag g, from offset `from` on
RECURSIVE replaceFrom(_, _, _, _, _)
replaceFrom(haystack, needle, replacement, caseInsensitive, from) ==
    LET hits == {i \in from..(Len(haystack) - Len(needle)) :
                    wordMatchAt(haystack, i, needle, caseInsensitive)}
    IN  IF hits = {} THEN SubSeq(haystack, from + 1, Len(haystack))
        ELSE LET i == CHOOSE h \in hits : \A g \in hits : h <= g
             IN  SubSeq(haystack, from + 1, i) \o replacement
                 \o replaceFrom(haystack, needle, replacement, caseInsensitive,
                                i + Len(needle))

replaceAllWordBoundary(haystack, needle, replacement, caseInsensitive) ==
    IF needle = <<>> THEN haystack
    ELSE replaceFrom(haystack, needle, replacement, caseInsensitive, 0)

\* entries.sort((a, b) => b[1].full.length - a[1].full.length): stable
RECURSIVE insertByFullLen(_, _)
insertByFullLen(sorted, kv) ==
    IF sorted = <<>> THEN <<kv>>
    ELSE IF Len(Head(sorted)[2].full) >= Len(kv[2].full)
         THEN <<Head(sorted)>> \o insertByFullLen(Tail(sorted), kv)
         ELSE <<kv>> \o sorted

RECURSIVE sortByFullLen(_)
sortByFullLen(map) ==
    IF map = <<>> THEN <<>>
    ELSE insertByFullLen(sortByFullLen(SubSeq(map, 1, Len(map) - 1)), map[Len(map)])

\* the body of the for loop of redactTextSemantic for one entry
redactEntry(out, key, entry, options) ==
    LET afterFull == replaceAllWordBoundary(out, entry.full, placeholder(key, V_FULL),
                                            options.caseInsensitive)
        person    == entry.label = "PERSON" /\ options.redactPersonFirstLast
        first     == IF "first" \in DOMAIN entry THEN entry.first ELSE <<>>
        last      == IF "last" \in DOMAIN entry THEN entry.last ELSE <<>>
        afterFirst ==
            IF person /\ first # <<>> /\ first # entry.full
            THEN replaceAllWordBoundary(afterFull, first, placeholder(key, V_FIRST),
                                        options.caseInsensitive)
            ELSE afterFull
    IN  IF person /\ last # <<>> /\ last # entry.full
        THEN replaceAllWordBoundary(afterFirst, last, placeholder(key, V_LAST),
                                    options.caseInsensitive)
        ELSE afterFirst

RECURSIVE redactEntries(_, _, _, _)
redactEntries(out, entries, i, options) ==
    IF i > Len(entries) THEN out
    ELSE redactEntries(redactEntry(out, entries[i][1], entries[i][2], options),
                       entries, i + 1, options)

\* the text of redactTextSemantic before the front matter is embedded
redactBody(text, map, options) == redactEntries(text, sortByFullLen(map), 1, options)

(***************************************************************************)
(* semanticUtils.ts : embedFrontMatter, extractFrontMatter, toYaml,        *)
(* fromYaml.  A serialised object is a sequence of <<key, value>>, a value *)
(* being [str |-> chars] or [obj |-> such a sequence].                     *)
(***************************************************************************)
NL     == <<10>>
DASHES == <<45, 45, 45>>
K_REDACTIONMAP == <<114, 101, 100, 97, 99, 116, 105, 111, 110, 77, 97, 112>>   \* "redactionMap"
K_LABEL     == <<108, 97, 98, 101, 108>>   \* "label"
K_FULL      == <<102, 117, 108, 108>>   \* "full"
K_FIRST     == <<102, 105, 114, 115, 116>>   \* "first"
K_LAST      == <<108, 97, 115, 116>>   \* "last"
K_CANONICAL == <<99, 97, 110, 111, 110, 105, 99, 97, 108>>   \* "canonical"
OBJECT_STR    == <<91, 111, 98, 106, 101, 99, 116, 32, 79, 98, 106, 101, 99, 116, 93>>   \* "[object Object]"
UNDEFINED_STR == <<117, 110, 100, 101, 102, 105, 110, 101, 100>>   \* "undefined"

\* { ...v } of a map entry, its keys in their order
entryObject(e) ==
    IF "first" \in DOMAIN e
    THEN << <<K_LABEL, [str |-> LabelChars(e.label)]>>, <<K_FULL, [str |-> e.full]>>,
            <<K_FIRST, [str |-> e.first]>>, <<K_LAST, [str |-> e.last]>>,
            <<K_CANONICAL, [str |-> e.canonical]>> >>
    ELSE << <<K_LABEL, [str |-> LabelChars(e.label)]>>, <<K_FULL, [str |-> e.full]>>,
            <<K_CANONICAL, [str |-> e.canonical]>> >>

\* { redactionMap: serializable }
frontMatterObject(map) ==
    << <<K_REDACTIONMAP,
         [obj |-> [i \in 1..Len(map) |-> <<map[i][1], [obj |-> entryObject(map[i][2])]>>]]>> >>

RECURSIVE joinWith(_, _)
joinWith(parts, sep) ==
    IF parts = <<>> THEN <<>>
    ELSE IF Len(parts) = 1 THEN parts[1]
    ELSE parts[1] \o sep \o joinWith(Tail(parts), sep)

RECURSIVE toYaml(_, _)
toYaml(obj, indent) ==
    LET pad == [i \in 1..(2 * indent) |-> 32]
        line(kv) ==
            IF "obj" \in DOMAIN kv[2]
            THEN pad \o kv[1] \o COLON \o NL \o toYaml(kv[2].obj, indent + 1)
            ELSE pad \o kv[1] \o COLON \o <<32>> \o kv[2].str
    IN  joinWith([i \in 1..Len(obj) |-> line(obj[i])], NL) \o NL

\* `---\n${yaml}---\n\n${body}`
embedFrontMatter(map, body) ==
    DASHES \o NL \o toYaml(map, 0) \o DASHES \o NL \o NL \o body

startsWithAt(s, i, w) == i + Len(w) <= Len(s) /\ SubSeq(s, i + 1, i + Len(w)) = w

\* yaml.split(/\r?\n/).filter(Boolean)
RECURSIVE yamlLines(_)
yamlLines(yaml) ==
    LET nl == {i \in 1..Len(yaml) : yaml[i] = 10}
    IN  IF nl = {}
        THEN IF yaml = <<>> THEN <<>> ELSE <<yaml>>
        ELSE LET i    == CHOOSE k \in nl : \A j \in nl : k <= j
                 cut  == IF i > 1 /\ yaml[i - 1] = 13 THEN i - 2 ELSE i - 1
                 head == SubSeq(yaml, 1, cut)
             IN  (IF head = <<>> THEN <<>> ELSE <<head>>)
                 \o yamlLines(SubSeq(yaml, i + 1, Len(yaml)))

leadingSpaces(s) == Len(s) - Len(trimStart(s))

\* raw.match(/^(\s*)([^:]+):(?:\s*(.*))?$/): [ok, indent, key, val]
parseLine(raw) ==
    LET colons == {i \in 1..Len(raw) : raw[i] = 58}
    IN  IF colons = {} THEN [ok |-> FALSE, indent |-> 0, key |-> <<>>, val |-> <<>>]
        ELSE LET c  == CHOOSE k \in colons : \A j \in colons : k <= j
                 ws == Min(leadingSpaces(raw), c - 1)
                 \* [^:]+ needs one character: \s* gives one back when the
                 \* colon follows the leading white space directly
                 indent == IF ws = c - 1 THEN ws - 1 ELSE ws
             IN  IF c = 1 THEN [ok |-> FALSE, indent |-> 0, key |-> <<>>, val |-> <<>>]
                 ELSE [ok     |-> TRUE,
                       indent |-> indent,
                       key    |-> trim(SubSeq(raw, indent + 1, c - 1)),
                       val    |-> trim(SubSeq(raw, c + 1, Len(raw)))]

IsPrefix(p, q) == Len(p) <= Len(q) /\ SubSeq(q, 1, Len(p)) = p

\* parent[key] = value, on the parsed object kept as a sequence of
\* <<path, [isObj, str]>>: the old value at the path and all below it go
assign(flat, path, value) ==
    LET keep == {i \in 1..Len(flat) : ~IsPrefix(path, flat[i][1])}
    IN  Append(pickIdx(flat, keep, 1), <<path, value>>)

RECURSIVE popStack(_, _)
popStack(stack, indent) ==
    IF Len(stack) > 0 /\ indent <= stack[Len(stack)].indent
    THEN popStack(SubSeq(stack, 1, Len(stack) - 1), indent)
    ELSE stack

RECURSIVE fromYamlLoop(_, _, _, _)
fromYamlLoop(lines, i, stack, flat) ==
    IF i > Len(lines) THEN flat
    ELSE LET m == parseLine(lines[i])
         IN  IF ~m.ok THEN fromYamlLoop(lines, i + 1, stack, flat)
             ELSE LET st   == popStack(stack, m.indent)
                      path == Append(st[Len(st)].path, m.key)
                  IN  IF m.val = <<>>
                      THEN fromYamlLoop(lines, i + 1,
                                        Append(st, [indent |-> m.indent, path |-> path]),
                                        assign(flat, path, [isObj |-> TRUE, str |-> <<>>]))
                      ELSE fromYamlLoop(lines, i + 1, st,
                                        assign(flat, path, [isObj |-> FALSE, str |-> m.val]))

fromYaml(yaml) ==
    fromYamlLoop(yamlLines(yaml), 1, <<[indent |-> -1, path |-> <<>>]>>, <<>>)

\* doc.match(/^---\n([\s\S]*?)\n---\n?\n?/): [matched, map, body]
extractFrontMatter(doc) ==
    LET ends == {j \in 4..Len(doc) : startsWithAt(doc, j, NL \o DASHES)}
    IN  IF ~startsWithAt(doc, 0, DASHES \o NL) \/ ends = {}
        THEN [matched |-> FALSE, map |-> <<>>, body |-> doc]
        ELSE LET j  == CHOOSE k \in ends : \A g \in ends : k <= g
                 e0 == j + 4
                 e1 == IF startsWithAt(doc, e0, NL) THEN e0 + 1 ELSE e0
                 e2 == IF e1 > e0 /\ startsWithAt(doc, e1, NL) THEN e1 + 1 ELSE e1
             IN  [matched |-> TRUE,
                  map     |-> fromYaml(SubSeq(doc, 5, j)),
                  body    |-> SubSeq(doc, e2 + 1, Len(doc))]

(***************************************************************************)
(* reconcile.ts : unredactTextSemantic.                                    *)
(* The lookup is a sequence of <<key, [FULL, FIRST, LAST]>>; Undef stands  *)
(* for a variant the entry does not have.                                  *)
(***************************************************************************)
Undef == <<-1>>

\* lookup[key] for an entry of a RedactionMap passed as argument
variantsOfEntry(e) ==
    [FULL  |-> e.full,
     FIRST |-> IF "first" \in DOMAIN e /\ e.first # <<>> THEN e.first ELSE Undef,
     LAST  |-> IF "last" \in DOMAIN e /\ e.last # <<>> THEN e.last ELSE Undef]

lookupOfMap(map) == [i \in 1..Len(map) |-> <<map[i][1], variantsOfEntry(map[i][2])>>]

\* the value of a field of a parsed entry: a string, or an empty object
fieldOf(flat, path) ==
    LET at == {i \in 1..Len(flat) : flat[i][1] = path}
    IN  IF at = {} THEN Undef
        ELSE LET v == flat[CHOOSE i \in at : TRUE][2]
             IN  IF v.isObj THEN OBJECT_STR ELSE v.str

\* lookup built from fm.redactionMap of a parsed front matter
lookupOfYaml(flat) ==
    LET keys == {i \in 1..Len(flat) :
                    Len(flat[i][1]) = 2 /\ flat[i][1][1] = K_REDACTIONMAP /\ flat[i][2].isObj}
        ents == pickIdx(flat, keys, 1)
    IN  [i \in 1..Len(ents) |->
            <<ents[i][1][2],
              [FULL  |-> fieldOf(flat, Append(ents[i][1], K_FULL)),
               FIRST |-> fieldOf(flat, Append(ents[i][1], K_FIRST)),
               LAST  |-> fieldOf(flat, Append(ents[i][1], K_LAST))]>>]

\* fm && fm.redactionMap
hasFrontMatterMap(ex) ==
    ex.matched /\ \E i \in 1..Len(ex.map) : ex.map[i][1] = <<K_REDACTIONMAP>>

IsHex(c) == (c >= 48 /\ c <= 57) \/ (c >= 65 /\ c <= 70)

RECURSIVE upperRun(_, _)
upperRun(s, i) == IF i < Len(s) /\ IsUpper(s[i + 1]) THEN 1 + upperRun(s, i + 1) ELSE 0

RECURSIVE hexRun(_, _)
hexRun(s, i) == IF i < Len(s) /\ IsHex(s[i + 1]) THEN 1 + hexRun(s, i + 1) ELSE 0

\* /\[([A-Z]+_[A-F0-9]{2,}):VARIANT\]/ at offset i: the length of labelId, or 0
tokenIdLen(s, i, variant) ==
    IF ~startsWithAt(s, i, LBRACKET) THEN 0
    ELSE LET a == upperRun(s, i + 1)
             b == hexRun(s, i + a + 2)
         IN  IF /\ a >= 1
                /\ startsWithAt(s, i + 1 + a, UNDERSCORE)
                /\ b >= 2
                /\ startsWithAt(s, i + a + 2 + b, COLON \o variant \o RBRACKET)
             THEN a + 1 + b
             ELSE 0

variantOf(vset, variant) ==
    IF variant = V_FULL THEN vset.FULL
    ELSE IF variant = V_FIRST THEN vset.FIRST ELSE vset.LAST

\* the replace callback: unknown -> the token itself; vset[variant] ?? vset.FULL
tokenValue(lookup, labelId, variant, token) ==
    IF ~MapHas(lookup, labelId) THEN token
    ELSE LET vset == MapGet(lookup, labelId)
             v    == IF variantOf(vset, variant) # Undef
                     THEN variantOf(vset, variant) ELSE vset.FULL
         IN  IF v = Undef THEN UNDEFINED_STR ELSE v

\* out.replace(rx, callback) for one variant, from offset `from` on
RECURSIVE replaceTokens(_, _, _, _)
replaceTokens(out, lookup, variant, from) ==
    LET hits == {i \in from..Len(out) : tokenIdLen(out, i, variant) > 0}
    IN  IF hits = {} THEN SubSeq(out, from + 1, Len(out))
        ELSE LET i   == CHOOSE h \in hits : \A g \in hits : h <= g
                 n   == tokenIdLen(out, i, variant)
                 len == n + Len(variant) + 3
             IN  SubSeq(out, from + 1, i)
                 \o tokenValue(lookup, SubSeq(out, i + 2, i + 1 + n), variant,
                               SubSeq(out, i + 1, i + len))
                 \o replaceTokens(out, lookup, variant, i + len)

RECURSIVE variantPasses(_, _, _)
variantPasses(out, lookup, v) ==
    IF v > Len(VARIANTS) THEN out
    ELSE variantPasses(replaceTokens(out, lookup, VARIANTS[v], 0), lookup, v + 1)

\* unredactTextSemantic(doc, mapArg); hasArg = FALSE when no map is passed
unredactTextSemantic(doc, mapArg, hasArg) ==
    LET ex == extractFrontMatter(doc)
    IN  IF hasFrontMatterMap(ex)
        THEN variantPasses(ex.body, lookupOfYaml(ex.map), 1)
        ELSE IF hasArg THEN variantPasses(ex.body, lookupOfMap(mapArg), 1)
        ELSE ex.body

\* redactTextSemantic(text, entities, options): [redacted, map]
redactTextSemantic(text, entities, options) ==
    LET map  == createRedactionMap(entities)
        body == redactBody(text, map, options)
    IN  [redacted |-> IF options.embedFrontMatter
                      THEN embedFrontMatter(frontMatterObject(map), body)
                      ELSE body,
         map |-> map]

(***************************************************************************)
(* A caller of reconcile: detectors push candidates, then reconcile runs.  *)
(***************************************************************************)
\* hits of the detectors on the document "12 Daniel O'Rourke Road"
T_DANIEL_OROURKE ==
    <<68, 97, 110, 105, 101, 108, 32, 79, 39, 82, 111, 117, 114, 107, 101>> \* "Daniel O'Rourke"
T_DANIEL   == <<68, 97, 110, 105, 101, 108>>                            \* "Daniel"
T_OROURKE  == <<79, 39, 82, 111, 117, 114, 107, 101>>                   \* "O'Rourke"
T_KE_ROAD  == <<107, 101, 32, 82, 111, 97, 100>>                        \* "ke Road"
T_STREET   == <<49, 50, 32>> \o T_DANIEL_OROURKE \o <<32, 82, 111, 97, 100>>

\* <<label, text, <<start, end>>>>: the PERSON span contains "Daniel" and
\* "O'Rourke", lies inside the street address, and shares 2 of the 7
\* characters of "ke Road"
RecHits ==
    { <<"PERSON",  T_DANIEL_OROURKE, <<3, 18>>>>,
      <<"PERSON",  T_DANIEL,         <<3, 9>>>>,
      <<"ORG",     T_OROURKE,        <<10, 18>>>>,
      <<"ADDRESS", T_STREET,         <<0, 23>>>>,
      <<"ORG",     T_KE_ROAD,        <<16, 23>>>> }

RegexScores == {NoScore, 100}
ModelScores == {60, 90}

Candidate(hit, score, source) ==
    [text |-> hit[2], label |-> hit[1], start |-> hit[3][1], end |-> hit[3][2],
     score |-> score, source |-> source]

RecInit ==
    /\ candidates = <<>>
    /\ recCall = <<>>
    /\ recAccepted = <<>>
    /\ recResult = <<>>
    /\ recPhase = "collecting"
    /\ PosIdle /\ SemIdle /\ VaultIdle /\ HostIdle

\* detectStructured's push: a pattern hit, source 'regex', score absent (or 1.0)
PushRegex ==
    /\ recPhase = "collecting"
    /\ Len(candidates) < MaxCands
    /\ \E hit \in RecHits, score \in RegexScores :
          candidates' = Append(candidates, Candidate(hit, score, "regex"))
    /\ UNCHANGED <<recCall, recAccepted, recResult, recPhase>>
    /\ UNCHANGED <<posVars, semVars, vaultVars, hostVars>>

\* a candidate of the recognizer: source 'model' with its confidence
PushModel ==
    /\ recPhase = "collecting"
    /\ Len(candidates) < MaxCands
    /\ \E hit \in RecHits, score \in ModelScores :
          candidates' = Append(candidates, Candidate(hit, score, "model"))
    /\ UNCHANGED <<recCall, recAccepted, recResult, recPhase>>
    /\ UNCHANGED <<posVars, semVars, vaultVars, hostVars>>

\* reconcile(candidates)
Reconcile ==
    /\ recPhase = "collecting"
    /\ recCall' = candidates
    /\ recAccepted' = accepted(candidates)
    /\ recResult' = reconcileTail(recAccepted')
    /\ candidates' = inputAfterReconcile(candidates)
    /\ recPhase' = "reconciled"
    /\ UNCHANGED <<posVars, semVars, vaultVars, hostVars>>

RecNext == PushRegex \/ PushModel \/ Reconcile

SpecRec == RecInit /\ [][RecNext]_vars

(***************************************************************************)
(* Claims about reconcile                                                  *)
(***************************************************************************)
InSeq(e, seq) == \E k \in 1..Len(seq) : seq[k] = e

\* what normalizeEntity makes of each input of the call; input i of it gets
\* past normalisation and the confidence filter
NormOfCall == [i \in 1..Len(recCall) |-> normalizeEntity(recCall[i])]
Survives(n, i) == n[i].kept /\ filterByConfidence(n[i].entity)

\* two candidates in conflict: ratio >= 0.4 and Rule B not applying
TrueConflict(e, o) == ~minorOverlap(e, o) /\ ~ruleB(e, o)

\* C4: in a true conflict between a regex candidate and a model candidate
\* (the only two candidates), the regex candidate is accepted and the model
\* candidate is not, whatever the scores and whichever starts first.
C4_RegexBeatsModel ==
    (recPhase = "reconciled" /\ Len(recCall) = 2) =>
        LET n == NormOfCall
        IN  \A i, j \in 1..2 :
                ( /\ i # j
                  /\ recCall[i].source = "regex" /\ recCall[j].source = "model"
                  /\ Survives(n, i) /\ Survives(n, j)
                  /\ TrueConflict(n[i].entity, n[j].entity) )
                => /\ InSeq(n[i].entity, recAccepted)
                   /\ ~InSeq(n[j].entity, recAccepted)

\* a PERSON of at least two tokens
MultiTokenPerson(e) == e.label = "PERSON" /\ countTokens(e.text) >= 2

\* input j is a candidate of another label overlapping the PERSON i by
\* ratio >= 0.4
OverlapsOther(n, i, j) ==
    /\ j # i /\ Survives(n, j)
    /\ n[j].entity.label # "PERSON"
    /\ ~minorOverlap(n[i].entity, n[j].entity)

\* input i is a multi-token PERSON overlapped that way, and no other PERSON
\* candidate overlaps it by that much
PersonCase(n, i) ==
    /\ Survives(n, i)
    /\ MultiTokenPerson(n[i].entity)
    /\ \E j \in 1..Len(n) : OverlapsOther(n, i, j)
    /\ \A j \in 1..Len(n) :
          (j # i /\ Survives(n, j) /\ n[j].entity.label = "PERSON")
              => minorOverlap(n[i].entity, n[j].entity)

\* C5: a PERSON of at least two tokens that overlaps a candidate of a
\* different label by ratio >= 0.4 is in reconcile's accepted list, whichever
\* of the two is regex-sourced, has the higher score or starts first.
C5_MultiTokenPersonKept ==
    recPhase = "reconciled" =>
        LET n == NormOfCall
        IN  \A i \in 1..Len(n) : PersonCase(n, i) => InSeq(n[i].entity, recAccepted)

\* the PERSON is the later-starting, model-sourced, lower-score side and is kept
C5_Witness ==
    /\ recPhase = "reconciled"
    /\ LET n == NormOfCall
       IN  \E i, j \in 1..Len(n) :
              /\ PersonCase(n, i) /\ OverlapsOther(n, i, j)
              /\ n[j].entity.start < n[i].entity.start
              /\ recCall[i].source = "model" /\ recCall[j].source = "regex"
              /\ scoreOr0(recCall[i]) < scoreOr0(recCall[j])
              /\ InSeq(n[i].entity, recAccepted)

\* C6: with a regex PERSON of two tokens and a lower-score model ORG whose
\* span lies inside the PERSON span (the only two candidates), the output
\* holds the PERSON and holds no ORG with the ORG candidate's span.
C6_SubsetOrgDropped ==
    (recPhase = "reconciled" /\ Len(recCall) = 2) =>
        \A i, j \in 1..2 :
            ( /\ recCall[i].source = "regex" /\ recCall[i].label = "PERSON"
              /\ countTokens(recCall[i].text) = 2
              /\ recCall[j].source = "model" /\ recCall[j].label = "ORG"
              /\ scoreOr0(recCall[j]) < scoreOr0(recCall[i])
              /\ recCall[i].start <= recCall[j].start
              /\ recCall[j].end <= recCall[i].end )
            => /\ InSeq(normalizeEntity(recCall[i]).entity, recResult)
               /\ ~\E k \in 1..Len(recResult) :
                      /\ recResult[k].label = "ORG"
                      /\ recResult[k].start = recCall[j].start
                      /\ recResult[k].end = recCall[j].end

(***************************************************************************)
(* The semantic PIIDetector session: inputs and actions.                   *)
(***************************************************************************)
W_AL_UPPER == <<65, 108>>                                   \* "Al"
W_AL_LOWER == <<97, 108>>                                   \* "al"
W_CARD     == <<52, 49>>                                    \* "41"
SemWords == {W_AL_UPPER, W_AL_LOWER, W_CARD}

\* documents: up to MaxWords words separated by one space
SemDocsOf(words) ==
    {joinSpace(ws) : ws \in ListsUpTo(words, MaxWords) \ {<<>>}}
SemDocs == SemDocsOf(SemWords)

IsDigits(w) == \A i \in 1..Len(w) : w[i] >= 48 /\ w[i] <= 57

\* what detectAll can report on text: a word of digits as CREDIT_CARD, a word
\* of letters as PERSON, two adjacent words of letters as one PERSON
SemEntitiesOf(text) ==
    LET starts == {i \in 0..(Len(text) - 1) : i = 0 \/ text[i] = 32}
        wordEnd(i) == CHOOSE j \in (i + 1)..Len(text) :
                          /\ \A k \in (i + 1)..j : text[k] # 32
                          /\ (j = Len(text) \/ text[j + 1] = 32)
        ent(l, a, b) == [label |-> l, text |-> SubSeq(text, a + 1, b), start |-> a, end |-> b]
        single == {ent(IF IsDigits(SubSeq(text, i + 1, wordEnd(i)))
                       THEN "CREDIT_CARD" ELSE "PERSON", i, wordEnd(i)) : i \in starts}
        pairs  == {ent("PERSON", i, wordEnd(wordEnd(i) + 1)) :
                      i \in {a \in starts :
                                /\ wordEnd(a) < Len(text)
                                /\ ~IsDigits(SubSeq(text, a + 1, wordEnd(a)))
                                /\ ~IsDigits(SubSeq(text, wordEnd(a) + 2,
                                                    wordEnd(wordEnd(a) + 1)))}}
    IN  single \cup pairs

\* the options handleRedact passes
HandlerOptions ==
    [redactPersonFirstLast |-> TRUE, embedFrontMatter |-> TRUE, caseInsensitive |-> TRUE]

SemStart(docs) ==
    /\ semInput \in docs
    /\ semEntities = <<>>
    /\ irreversible \in BOOLEAN
    /\ semRedacted = <<>>
    /\ semanticMap = <<>>
    /\ semMode = "none"
    /\ semMapArg = <<>>
    /\ semUnredacted = <<>>
    /\ selection = NoSelection
    /\ toast = ""
    /\ semPhase = "idle"

SemInit == SemStart(SemDocs) /\ PosIdle /\ RecIdle /\ VaultIdle /\ HostIdle

\* handleDetect: detectAll succeeds with some entity list, or throws
SemDetect ==
    /\ semPhase = "idle"
    /\ IF trim(semInput) = <<>>
       THEN toast' = "No Text" /\ UNCHANGED <<semEntities, semPhase>>
       ELSE \/ /\ \E ents \in ListsUpTo(SemEntitiesOf(semInput), MaxEnts) :
                     semEntities' = ents
               /\ toast' = "Detection Complete"
               /\ semPhase' = "detected"
            \/ /\ toast' = "Detection Failed"
               /\ UNCHANGED <<semEntities, semPhase>>
    /\ UNCHANGED <<semInput, irreversible, semRedacted, semanticMap, semMode,
                   semMapArg, semUnredacted, selection>>
    /\ UNCHANGED <<posVars, recVars, vaultVars, hostVars>>

\* the irreversible branch of handleRedact: `[REDACTED_${label}]` by offsets
W_REDACTED == <<82, 69, 68, 65, 67, 84, 69, 68>>   \* "REDACTED"

RECURSIVE irreversibleLoop(_, _, _)
irreversibleLoop(result, sorted, i) ==
    IF i > Len(sorted) THEN result
    ELSE irreversibleLoop(
             substring(result, 0, sorted[i].start)
                 \o LBRACKET \o W_REDACTED \o UNDERSCORE \o LabelChars(sorted[i].label)
                 \o RBRACKET
                 \o substring(result, sorted[i].end, Len(result)),
             sorted, i + 1)

\* handleRedact of the semantic component
SemRedact ==
    /\ semPhase = "detected"
    /\ IF irreversible
       THEN /\ semRedacted' = irreversibleLoop(semInput, sortDescByStart(semEntities), 1)
            /\ semMode' = "irreversible"
            /\ UNCHANGED semanticMap
       ELSE LET r == redactTextSemantic(semInput, semEntities, HandlerOptions)
            IN  /\ semRedacted' = r.redacted
                /\ semanticMap' = r.map
                /\ semMode' = "frontmatter"
    /\ toast' = "Redaction Complete"
    /\ semPhase' = "redacted"
    /\ UNCHANGED <<semInput, semEntities, irreversible, semMapArg, semUnredacted, selection>>
    /\ UNCHANGED <<posVars, recVars, vaultVars, hostVars>>

\* a caller of redactTextSemantic that keeps the map beside the text
\* (embedFrontMatter: false)
RedactSemanticBare ==
    /\ semPhase = "detected"
    /\ ~irreversible
    /\ LET r == redactTextSemantic(semInput, semEntities,
                                   [HandlerOptions EXCEPT !.embedFrontMatter = FALSE])
       IN  /\ semRedacted' = r.redacted
           /\ semanticMap' = r.map
    /\ semMode' = "bare"
    /\ semPhase' = "redacted"
    /\ UNCHANGED <<semInput, semEntities, irreversible, semMapArg, semUnredacted, selection, toast>>
    /\ UNCHANGED <<posVars, recVars, vaultVars, hostVars>>

\* unredactTextSemantic(redacted, mapArg), mapArg holding all or some of the
\* entries of the map
SemUnredact ==
    /\ semPhase = "redacted"
    /\ semMode \in {"frontmatter", "bare"}
    /\ \E keep \in SUBSET (1..Len(semanticMap)) :
          LET mapArg == pickIdx(semanticMap, keep, 1)
          IN  /\ semMapArg' = mapArg
              /\ semUnredacted' = unredactTextSemantic(semRedacted, mapArg, TRUE)
    /\ semPhase' = "unredacted"
    /\ UNCHANGED <<semInput, semEntities, irreversible, semRedacted, semanticMap,
                   semMode, selection, toast>>
    /\ UNCHANGED <<posVars, recVars, vaultVars, hostVars>>

SemNext == SemDetect \/ SemRedact \/ RedactSemanticBare \/ SemUnredact

SpecSem == SemInit /\ [][SemNext]_vars

(***************************************************************************)
(* Claims about semantic mode                                              *)
(***************************************************************************)
\* C2: unredactTextSemantic applied to the output of redactTextSemantic, with
\* the map it produced (embedded as front matter or passed as argument),
\* returns exactly the original document.
C2_SemanticRoundTrip ==
    (semPhase = "unredacted" /\ semMapArg = semanticMap) => semUnredacted = semInput

\* the same for entity lists whose labels are single upper-case words
C2_RoundTripPlainLabels ==
    ( /\ semPhase = "unredacted" /\ semMapArg = semanticMap
      /\ \A i \in 1..Len(semEntities) : semEntities[i].label = "PERSON" )
    => semUnredacted = semInput

\* the token of key for variant
TokenOf(key, variant) == placeholder(key, variant)

\* no token of a key of map is left in text
NoTokenLeft(text, map) ==
    \A i \in 1..Len(map), v \in 1..Len(VARIANTS) :
        countOcc(text, TokenOf(map[i][1], VARIANTS[v])) = 0

\* every token of a key that is not in mapArg is in `after` as often as in `before`
UnknownKept(before, after, map, mapArg) ==
    \A i \in 1..Len(map), v \in 1..Len(VARIANTS) :
        ~MapHas(mapArg, map[i][1]) =>
            countOcc(after, TokenOf(map[i][1], VARIANTS[v]))
                = countOcc(before, TokenOf(map[i][1], VARIANTS[v]))

\* C10: unredactTextSemantic leaves every token whose LABEL_ID is not a key of
\* the map as it is, and substitutes every token whose LABEL_ID is a key.
C10_PartialUnredact ==
    (semPhase = "unredacted" /\ semMode = "bare")
    => /\ UnknownKept(semRedacted, semUnredacted, semanticMap, semMapArg)
       /\ NoTokenLeft(semUnredacted, semMapArg)

\* the first half of C10 alone: tokens of unknown keys are left as they are
C10_UnknownTokensKept ==
    (semPhase = "unredacted" /\ semMode = "bare")
    => UnknownKept(semRedacted, semUnredacted, semanticMap, semMapArg)

(***************************************************************************)
(* The encrypted mapping vault: deriveKey, encryptJSON, decryptJSON and    *)
(* the export / import handlers of the semantic component.                 *)
(*                                                                         *)
(* PBKDF2 and AES-GCM are the platform's: a derived key is known by the    *)
(* passphrase and salt it came from, a ciphertext by the key, iv and       *)
(* plaintext that made it, and AES-GCM decryption succeeds only on the     *)
(* unchanged ciphertext under the same key and iv.  JSON text is kept as   *)
(* the value it denotes.                                                   *)
(***************************************************************************)
b64val(c) ==
    IF c >= 65 /\ c <= 90 THEN c - 65
    ELSE IF c >= 97 /\ c <= 122 THEN c - 71
    ELSE IF c >= 48 /\ c <= 57 THEN c + 4
    ELSE IF c = 43 THEN 62
    ELSE IF c = 47 THEN 63 ELSE -1

\* the data characters of a base64 string: up to two trailing "=" removed
stripPad(s) ==
    IF Len(s) >= 2 /\ s[Len(s)] = 61 /\ s[Len(s) - 1] = 61 THEN SubSeq(s, 1, Len(s) - 2)
    ELSE IF Len(s) >= 1 /\ s[Len(s)] = 61 THEN SubSeq(s, 1, Len(s) - 1)
    ELSE s

\* atob throws InvalidCharacterError
atobThrows(s) ==
    LET d == stripPad(s)
    IN  \/ \E i \in 1..Len(d) : b64val(d[i]) = -1
        \/ Len(d) % 4 = 1
        \/ (Len(s) # Len(d) /\ Len(s) % 4 # 0)

RECURSIVE atobLoop(_)
atobLoop(d) ==
    IF Len(d) < 2 THEN <<>>
    ELSE LET a == b64val(d[1])
             b == b64val(d[2])
         IN  IF Len(d) = 2 THEN << a * 4 + (b \div 16) >>
             ELSE LET c == b64val(d[3])
                  IN  IF Len(d) = 3
                      THEN << a * 4 + (b \div 16), (b % 16) * 16 + (c \div 4) >>
                      ELSE << a * 4 + (b \div 16), (b % 16) * 16 + (c \div 4),
                              (c % 4) * 64 + b64val(d[4]) >>
                           \o atobLoop(SubSeq(d, 5, Len(d)))

atob(s) == atobLoop(stripPad(s))

\* crypto.subtle.deriveKey: PBKDF2, 200 000 rounds of SHA-256, AES-GCM 256
deriveKey(pass, salt) ==
    [pass |-> pass, salt |-> salt, iterations |-> 200000, hash |-> "SHA-256"]

\* crypto.subtle.encrypt({name: 'AES-GCM', iv}, key, data), base64 encoded
aesGcmEncrypt(iv, key, data) == [key |-> key, iv |-> iv, data |-> data, intact |-> TRUE]

\* crypto.subtle.decrypt({name: 'AES-GCM', iv}, key, ct): OperationError unless
\* the ciphertext is unchanged and key and iv are those of the encryption
aesGcmDecrypt(iv, key, ct) ==
    IF ct.intact /\ ct.key = key /\ ct.iv = iv
    THEN [threw |-> FALSE, data |-> ct.data]
    ELSE [threw |-> TRUE, data |-> <<>>]

\* encryptJSON(obj, pass) with the random iv and salt drawn
encryptJSON(obj, pass, iv, salt) ==
    [v |-> "1", alg |-> "AES-GCM", kdf |-> "PBKDF2-SHA256", iters |-> 200000,
     iv |-> btoa(iv), salt |-> btoa(salt),
     ct |-> aesGcmEncrypt(iv, deriveKey(pass, salt), obj)]

\* String(undefined), what atob receives for a property the blob lacks; its
\* nine characters are not a base64 length, so atob throws
T_UNDEFINED == <<117, 110, 100, 101, 102, 105, 110, 101, 100>>

\* the argument of atob(blob.f)
atobArg(blob, f) == IF f \in DOMAIN blob THEN blob[f] ELSE T_UNDEFINED

\* decryptJSON(blob, pass): [threw, value]
decryptJSON(blob, pass) ==
    IF atobThrows(atobArg(blob, "iv")) \/ atobThrows(atobArg(blob, "salt"))
       \/ "ct" \notin DOMAIN blob
    THEN [threw |-> TRUE, value |-> <<>>]
    ELSE LET pt == aesGcmDecrypt(atob(blob.iv), deriveKey(pass, atob(blob.salt)), blob.ct)
         IN  [threw |-> pt.threw, value |-> pt.data]

\* the handler with a catch block that also resets the map
importMappingResetOnFailure(blob, pass, current) ==
    LET d == decryptJSON(blob, pass)
    IN  IF d.threw
        THEN [map |-> <<>>, toast |-> "Import Failed", decrypt |-> "threw"]
        ELSE IF d.value.mapping = <<>>
        THEN [map |-> current, toast |-> "Import Failed", decrypt |-> "returned"]
        ELSE [map |-> d.value.mapping, toast |-> "Encrypted Mapping Imported",
              decrypt |-> "returned"]

\* handleImportEncryptedMapping from the try block on, for a chosen file and
\* a non-empty passphrase: [map, toast, decrypt]
importMapping(blob, pass, current) ==
    LET d == decryptJSON(blob, pass)
    IN  IF d.threw
        THEN [map |-> current, toast |-> "Import Failed", decrypt |-> "threw"]
        ELSE IF d.value.mapping = <<>>
        THEN [map |-> current, toast |-> "Import Failed", decrypt |-> "returned"]
        ELSE [map |-> d.value.mapping, toast |-> "Encrypted Mapping Imported",
              decrypt |-> "returned"]

Passphrases == {"alpha", "omega"}
NoPass == ""

\* values crypto.getRandomValues can fill the iv (12 bytes) and the salt
\* (16 bytes) with
RandomBytes == {7, 200}
ivOf(b)   == [i \in 1..12 |-> b]
saltOf(b) == [i \in 1..16 |-> b]

VaultDocs == {W_AL_UPPER \o <<32>> \o W_CARD}               \* "Al 41"

VaultInit ==
    /\ SemStart(VaultDocs)
    /\ artifact = NoFile
    /\ tampers = 0
    /\ importLog = NoImport
    /\ PosIdle /\ RecIdle /\ HostIdle

\* handleExportEncryptedMapping; prompt yields a passphrase or nothing
ExportEncrypted ==
    /\ artifact = NoFile
    /\ IF irreversible
       THEN toast' = "Not Available" /\ UNCHANGED artifact
       ELSE IF semanticMap = <<>>
       THEN toast' = "No Mapping" /\ UNCHANGED artifact
       ELSE \E pass \in Passphrases \cup {NoPass}, ib \in RandomBytes, sb \in RandomBytes :
               IF pass = NoPass
               THEN UNCHANGED <<toast, artifact>>
               ELSE /\ artifact' =
                          [kind |-> "file",
                           blob |-> encryptJSON([version |-> "2.0", mode |-> "semantic",
                                                 mapping |-> semanticMap],
                                                pass, ivOf(ib), saltOf(sb))]
                    /\ toast' = "Encrypted Mapping Exported"
    /\ UNCHANGED <<semInput, semEntities, irreversible, semRedacted, semanticMap, semMode,
                   semMapArg, semUnredacted, selection, semPhase, tampers, importLog>>
    /\ UNCHANGED <<posVars, recVars, hostVars>>

\* the file is changed outside the program: some bytes of the ciphertext, or
\* the iv or the salt replaced by another value
TamperFile ==
    /\ artifact # NoFile
    /\ tampers < MaxTampers
    /\ \/ artifact' = [artifact EXCEPT !.blob.ct.intact = FALSE]
       \/ \E b \in RandomBytes :
             /\ btoa(ivOf(b)) # artifact.blob.iv
             /\ artifact' = [artifact EXCEPT !.blob.iv = btoa(ivOf(b))]
       \/ \E b \in RandomBytes :
             /\ btoa(saltOf(b)) # artifact.blob.salt
             /\ artifact' = [artifact EXCEPT !.blob.salt = btoa(saltOf(b))]
       \/ artifact' = [artifact EXCEPT !.blob.iv = SubSeq(@, 1, Len(@) - 3)]
    /\ tampers' = tampers + 1
    /\ UNCHANGED <<semVars, importLog>>
    /\ UNCHANGED <<posVars, recVars, hostVars>>

\* the page is loaded again: every useState starts from its initial value,
\* the downloaded file stays
Reload ==
    /\ semPhase # "idle" \/ semanticMap # <<>>
    /\ semInput' = <<>>
    /\ semEntities' = <<>>
    /\ irreversible' = FALSE
    /\ semRedacted' = <<>>
    /\ semanticMap' = <<>>
    /\ semMode' = "none"
    /\ semMapArg' = <<>>
    /\ semUnredacted' = <<>>
    /\ selection' = NoSelection
    /\ toast' = ""
    /\ semPhase' = "idle"
    /\ UNCHANGED vaultVars
    /\ UNCHANGED <<posVars, recVars, hostVars>>

\* handleImportEncryptedMapping with the file picked and the prompt answered
ImportEncrypted ==
    /\ artifact # NoFile
    /\ \E pass \in Passphrases \cup {NoPass} :
          IF pass = NoPass
          THEN UNCHANGED <<semanticMap, toast, importLog>>
          ELSE LET r == importMapping(artifact.blob, pass, semanticMap)
               IN  /\ semanticMap' = r.map
                   /\ toast' = r.toast
                   /\ importLog' = [kind |-> "import", file |-> artifact, pass |-> pass,
                                    decrypt |-> r.decrypt, before |-> semanticMap]
    /\ UNCHANGED <<semInput, semEntities, irreversible, semRedacted, semMode,
                   semMapArg, semUnredacted, selection, semPhase, artifact, tampers>>
    /\ UNCHANGED <<posVars, recVars, hostVars>>

VaultNext ==
    SemDetect \/ SemRedact \/ ExportEncrypted \/ TamperFile \/ Reload \/ ImportEncrypted

SpecVault == VaultInit /\ [][VaultNext]_vars

(***************************************************************************)
(* Claims about the vault                                                  *)
(***************************************************************************)
\* the passphrase the imported file was encrypted with, and whether its
\* ciphertext was changed since
SealedWith == importLog.file.blob.ct.key.pass
Corrupted  == ~importLog.file.blob.ct.intact

\* the import handler was the last handler to run
JustImported ==
    importLog # NoImport /\ toast \in {"Import Failed", "Encrypted Mapping Imported"}

\* C7: when the import handler runs decryptJSON with a passphrase other than
\* the one encryptJSON used, or on a changed ciphertext, decryptJSON throws,
\* the handler reports 'Import Failed' and the redaction map stays as it was.
C7_FailedDecryptKeepsMap ==
    (JustImported /\ (importLog.pass # SealedWith \/ Corrupted))
    => /\ importLog.decrypt = "threw"
       /\ toast = "Import Failed"
       /\ semanticMap = importLog.before

\* an import with the wrong passphrase into a session that holds a map
C7_Witness ==
    /\ JustImported
    /\ importLog.pass # SealedWith /\ ~Corrupted
    /\ importLog.decrypt = "threw"
    /\ toast = "Import Failed"
    /\ semanticMap # <<>>
    /\ semanticMap = importLog.before

(***************************************************************************)
(* A caller handing malformed entities to the two redactors.               *)
(***************************************************************************)
L_STROKE == <<321>>                                         \* "Ł", outside Latin-1
MalAlphabet == {97} \cup {L_STROKE[1]}                      \* "a", "Ł"
MalDocs == StringsUpTo(MalAlphabet, MaxDocLen) \ {<<>>}

\* entity records a caller can pass for text: exact ones, one with empty text,
\* and exact texts whose offsets lie beyond the end of the document
MalformedEntities(text) ==
    LET exact == {[label |-> "PERSON", text |-> SubSeq(text, s + 1, e),
                   start |-> s, end |-> e] :
                     s \in 0..(Len(text) - 1), e \in 1..Len(text)}
                 \cap {x \in [label : {"PERSON"}, text : StringsUpTo(MalAlphabet, MaxDocLen),
                              start : 0..MaxDocLen, end : 0..MaxDocLen] : x.start < x.end}
    IN  exact
        \cup {[label |-> "PERSON", text |-> <<>>, start |-> 0, end |-> 0]}
        \cup {[x EXCEPT !.start = Len(text) + 1, !.end = Len(text) + 1 + Len(x.text)] :
                 x \in {y \in exact : y.start = 0}}

MalInit ==
    /\ inputText \in MalDocs
    /\ detectedText = <<>>
    /\ detectedEntities = <<>>
    /\ redactedText = <<>>
    /\ redactionMap = <<>>
    /\ warned = <<>>
    /\ engine = "none"
    /\ phase = "idle"
    /\ RecIdle /\ SemIdle /\ VaultIdle /\ HostIdle

\* the caller assembles the entity list
MalCollect ==
    /\ phase = "idle"
    /\ \E ents \in ListsUpTo(MalformedEntities(inputText), MaxEnts) :
          detectedEntities' = ents
    /\ detectedText' = inputText
    /\ phase' = "detected"
    /\ UNCHANGED <<inputText, redactedText, redactionMap, warned, engine>>
    /\ UNCHANGED <<recVars, semVars, vaultVars, hostVars>>

\* redactText(text, entities) of part_000, deterministic by default: it
\* returns, or btoa's InvalidCharacterError leaves the function
CallRedactText ==
    /\ phase = "detected"
    /\ \E r \in {redactText(inputText, detectedEntities, TRUE, NoRands)} :
          IF r.threw
          THEN /\ phase' = "threw"
               /\ UNCHANGED <<redactedText, redactionMap, warned>>
          ELSE /\ phase' = "redacted"
               /\ redactedText' = r.output
               /\ redactionMap' = r.map
               /\ warned' = r.warned
    /\ engine' = "lib"
    /\ UNCHANGED <<inputText, detectedText, detectedEntities>>
    /\ UNCHANGED <<recVars, semVars, vaultVars, hostVars>>

\* redactTextSemantic(text, entities, options) keeping the map beside the text
CallRedactSemantic ==
    /\ phase = "detected"
    /\ \E r \in {redactTextSemantic(inputText, detectedEntities,
                                    [HandlerOptions EXCEPT !.embedFrontMatter = FALSE])} :
          /\ semRedacted' = r.redacted
          /\ semanticMap' = r.map
    /\ semMode' = "bare"
    /\ engine' = "semantic"
    /\ phase' = "redacted"
    /\ UNCHANGED <<inputText, detectedText, detectedEntities, redactedText, redactionMap,
                   warned>>
    /\ UNCHANGED <<semInput, semEntities, irreversible, semMapArg, semUnredacted, selection, toast,
                   semPhase>>
    /\ UNCHANGED <<recVars, vaultVars, hostVars>>

MalNext == MalCollect \/ CallRedactText \/ CallRedactSemantic

SpecMal == MalInit /\ [][MalNext]_vars

(***************************************************************************)
(* Claims about malformed entities                                         *)
(***************************************************************************)
\* C11: redactText and redactTextSemantic return normally for every document
\* and entity list; no entity makes the call end in an exception.
C11_RedactTotal == phase # "threw"

\* C11 for redactTextSemantic alone: every entity of the list has its entry
\* in the returned map, whatever its text and offsets
C11_SemanticTotal ==
    (phase = "redacted" /\ engine = "semantic") =>
        \A i \in 1..Len(detectedEntities) :
            MapHas(semanticMap, semanticKey(detectedEntities[i]))

(***************************************************************************)
(* reconcile on the candidates of a document that names a person twice:    *)
(* "Daniel, 12 Daniel O'Rourke Road AB".                                    *)
(***************************************************************************)
MaxBatch == 3

T_AB == <<65, 66>>                        \* "AB"
T_O  == <<79>>                            \* "O"

\* the candidates as the detectors report them; the recognizer uses the
\* PER vocabulary for the trailing initials
BatchCands ==
    { Candidate(<<"ADDRESS", T_STREET,         <<8, 31>>>>,  90,      "model"),
      Candidate(<<"PERSON",  T_DANIEL_OROURKE, <<11, 26>>>>, 90,      "model"),
      Candidate(<<"ORG",     T_KE_ROAD,        <<24, 31>>>>, NoScore, "regex"),
      Candidate(<<"PERSON",  T_DANIEL,         <<0, 6>>>>,   90,      "model"),
      Candidate(<<"PERSON",  T_DANIEL,         <<11, 17>>>>, 90,      "model"),
      Candidate(<<"PER",     T_AB,             <<32, 34>>>>, 90,      "model"),
      Candidate(<<"PERSON",  T_AB,             <<32, 34>>>>, 90,      "model"),
      Candidate(<<"PERSON",  T_O,              <<18, 19>>>>, 90,      "model") }

\* the caller collects one more candidate before it calls reconcile
PushBatch ==
    /\ recPhase = "collecting"
    /\ Len(candidates) < MaxBatch
    /\ \E c \in BatchCands : candidates' = Append(candidates, c)
    /\ UNCHANGED <<recCall, recAccepted, recResult, recPhase>>
    /\ UNCHANGED <<posVars, semVars, vaultVars, hostVars>>

BatchNext == PushBatch \/ Reconcile

SpecBatch == RecInit /\ [][BatchNext]_vars

\* the list that reaches the final de-duplication loop of reconcile
BeforeUnique == collapseAddresses(dedupePersons(dedupeExact(recAccepted)), 2)

\* C12: reconcile removes only exact duplicates: two entities that reach the
\* final de-duplication with the same label and text but different spans are
\* both present in the returned list.
C12_OnlyExactDuplicatesRemoved ==
    recPhase = "reconciled" =>
        \A b \in {BeforeUnique} :
            \A i, j \in 1..Len(b) :
                (/\ i # j
                 /\ b[i].label = b[j].label
                 /\ b[i].text = b[j].text
                 /\ <<b[i].start, b[i].end>> # <<b[j].start, b[j].end>>)
                => (InSeq(b[i], recResult) /\ InSeq(b[j], recResult))

\* C13: no returned entity is a PERSON whose text is a single all-caps token,
\* and none has a text shorter than 2 characters, whichever label vocabulary
\* the candidate used.
C13_NoAllCapsPersonNoShortText ==
    recPhase = "reconciled" =>
        \A i \in 1..Len(recResult) :
            /\ ~(recResult[i].label = "PERSON" /\ isAllCapsToken(recResult[i].text))
            /\ Len(recResult[i].text) >= 2

\* C13, the length half alone: no returned entity has a text shorter than 2
\* characters.
C13_NoShortText ==
    recPhase = "reconciled" =>
        \A i \in 1..Len(recResult) : Len(recResult[i].text) >= 2

\* C14: the list returned by reconcile is ordered by start, ascending.
C14_ResultAscendingByStart ==
    recPhase = "reconciled" =>
        \A i \in 1..(Len(recResult) - 1) :
            recResult[i].start <= recResult[i + 1].start

\* C15: reconcile leaves the list its caller passed, and every entity in it,
\* as they were before the call.
C15_InputUnchanged ==
    recPhase = "reconciled" => candidates = recCall

(***************************************************************************)
(* Import of an export file in which a field was removed or renamed.       *)
(***************************************************************************)
BlobFields == {"v", "alg", "kdf", "iters", "iv", "salt", "ct"}

\* the JSON object without the key f
withoutField(blob, f) == [k \in DOMAIN blob \ {f} |-> blob[k]]

\* the JSON object with the key f renamed
withFieldRenamed(blob, f) ==
    [k \in (DOMAIN blob \ {f}) \cup {f \o "_"} |-> IF k = f \o "_" THEN blob[f] ELSE blob[k]]

\* the file is edited outside the program: a field of the JSON object is
\* removed, or written under another name
RenameField ==
    /\ artifact # NoFile
    /\ tampers < MaxTampers
    /\ \E f \in BlobFields \cap DOMAIN artifact.blob :
          \/ artifact' = [artifact EXCEPT !.blob = withoutField(@, f)]
          \/ artifact' = [artifact EXCEPT !.blob = withFieldRenamed(@, f)]
    /\ tampers' = tampers + 1
    /\ UNCHANGED <<semVars, importLog>>
    /\ UNCHANGED <<posVars, recVars, hostVars>>

FieldsNext ==
    SemDetect \/ SemRedact \/ ExportEncrypted \/ RenameField \/ ImportEncrypted

SpecFields == VaultInit /\ [][FieldsNext]_vars

\* C16: decoding an export file fails whenever one of v, alg, kdf, iters, iv,
\* salt, ct is missing or renamed; no such file is decrypted into a mapping.
C16_MissingFieldFailsDecode ==
    (importLog.kind = "import" /\ ~(BlobFields \subseteq DOMAIN importLog.file.blob))
    => importLog.decrypt = "threw"

\* C16 for the three fields decryptJSON reads: a file without iv, salt or ct
\* is never decrypted.
C16_MissingCipherFieldFailsDecode ==
    (importLog.kind = "import" /\ ~({"iv", "salt", "ct"} \subseteq DOMAIN importLog.file.blob))
    => importLog.decrypt = "threw"

(***************************************************************************)
(* createRedactionMap on entity lists in which the recognizer reports a    *)
(* name once as PERSON and once as ORG.                                    *)
(***************************************************************************)
\* the entities of text, each name also under the label ORG
KeyEntitiesOf(text) ==
    SemEntitiesOf(text)
    \cup {[e EXCEPT !.label = "ORG"] : e \in {x \in SemEntitiesOf(text) : x.label = "PERSON"}}

KeyInit == SemStart(SemDocs) /\ irreversible = FALSE /\ PosIdle /\ RecIdle /\ VaultIdle /\ HostIdle

\* detectAll returns an entity list
KeyDetect ==
    /\ semPhase = "idle"
    /\ \E ents \in ListsUpTo(KeyEntitiesOf(semInput), MaxEnts) : semEntities' = ents
    /\ toast' = "Detection Complete"
    /\ semPhase' = "detected"
    /\ UNCHANGED <<semInput, irreversible, semRedacted, semanticMap, semMode,
                   semMapArg, semUnredacted, selection>>
    /\ UNCHANGED <<posVars, recVars, vaultVars, hostVars>>

KeyNext == KeyDetect \/ RedactSemanticBare

SpecKeys == KeyInit /\ [][KeyNext]_vars

\* the first entity of the list whose normalized text is that of entity i
FirstWithValue(ents, i) ==
    ents[CHOOSE k \in 1..i :
            /\ normalizeForKey(ents[k].text) = normalizeForKey(ents[i].text)
            /\ \A j \in 1..(k - 1) :
                  normalizeForKey(ents[j].text) # normalizeForKey(ents[i].text)]

C17_SameLabelOneEntry ==
    (semPhase = "redacted" /\ semMode = "bare") =>
        \A i, j \in 1..Len(semEntities) :
            (/\ i < j
             /\ semEntities[i].label = semEntities[j].label
             /\ normalizeForKey(semEntities[i].text) = normalizeForKey(semEntities[j].text))
            => /\ semanticKey(semEntities[i]) = semanticKey(semEntities[j])
               /\ Cardinality({k \in 1..Len(semanticMap) :
                                  semanticMap[k][1] = semanticKey(semEntities[j])}) = 1

\* the first entity of the list with the label and normalized text of entity i
FirstWithLabelValue(ents, i) ==
    ents[CHOOSE k \in 1..i :
            /\ ents[k].label = ents[i].label
            /\ normalizeForKey(ents[k].text) = normalizeForKey(ents[i].text)
            /\ \A j \in 1..(k - 1) :
                  ~(/\ ents[j].label = ents[i].label
                    /\ normalizeForKey(ents[j].text) = normalizeForKey(ents[i].text))]

TokenLabels == {"PERSON", "ORG"}

\* Math.random().toString(36): "0." and base-36 digits
RandomString(c) == <<48, 46>> \o [i \in 1..8 |-> c]

\* what Math.random() answers during one redaction, call by call
RandomRuns == {[i \in 1..(MaxEnts + 1) |-> RandomString(97 + i + o)] : o \in {0, 10}}

DetectLabelled ==
    /\ phase = "idle"
    /\ trim(inputText) # <<>>
    /\ \E ents \in ListsUpTo(ExactEntities(inputText, TokenLabels), MaxEnts) :
          detectedEntities' = ents
    /\ detectedText' = inputText
    /\ phase' = "detected"
    /\ UNCHANGED <<inputText, redactedText, redactionMap, warned, engine>>
    /\ UNCHANGED <<recVars, semVars, vaultVars, hostVars>>

\* redactText of part_000 with deterministic = true
libDeterministic(rands) == redactText(inputText, detectedEntities, TRUE, rands)

\* redactText of redact.ts with the placeholders of makePlaceholder(.., true)
rescueDeterministic(rands) ==
    LET sorted == sortDescByStart(detectedEntities)
    IN  redactTextRescue(inputText, sorted,
                         [i \in 1..Len(sorted) |->
                             makePlaceholder(sorted[i].label, sorted[i].text, TRUE, rands[i])])

RedactLibDeterministic ==
    /\ phase = "detected"
    /\ \E rands \in RandomRuns : ApplyRedaction(libDeterministic(rands), "lib")

RedactRescueDeterministic ==
    /\ phase = "detected"
    /\ \E rands \in RandomRuns : ApplyRedaction(rescueDeterministic(rands), "rescue")

\* the same document and entities are redacted a second time
RedactAgain ==
    /\ phase = "redacted"
    /\ \E rands \in RandomRuns :
          \E r \in {IF engine = "lib" THEN libDeterministic(rands)
                    ELSE rescueDeterministic(rands)} :
             /\ ~r.threw
             /\ redactedText' = r.output
             /\ redactionMap' = r.map
             /\ warned' = r.warned
    /\ phase' = "redacted twice"
    /\ UNCHANGED <<inputText, detectedText, detectedEntities, engine>>
    /\ UNCHANGED <<recVars, semVars, vaultVars, hostVars>>

TokenNext ==
    DetectLabelled \/ RedactLibDeterministic \/ RedactRescueDeterministic \/ RedactAgain

SpecToken == PosInit /\ [][TokenNext]_vars

\* the token key starts with the label l (after the bracket, if it has one)
TokenHasLabel(key, l) ==
    \E off \in {0, 1} :
        SubSeq(key, off + 1, off + Len(LabelChars(l)) + 1) = LabelChars(l) \o UNDERSCORE

\* no text is recorded under two tokens of one label
OneTokenPerLabelAndText(map) ==
    \A k, l \in 1..Len(map) :
        (k # l /\ map[k][2] = map[l][2])
        => \A lab \in TokenLabels : ~(TokenHasLabel(map[k][1], lab) /\ TokenHasLabel(map[l][1], lab))

\* C18: in deterministic mode the token depends on the label and the text of
\* the entity only: within one redaction no text gets two tokens of one label,
\* and a second redaction of the same document gives the same text and map.
C18_DeterministicTokens ==
    [][/\ (phase' \in {"redacted", "redacted twice"}) => OneTokenPerLabelAndText(redactionMap')
       /\ (phase' = "redacted twice")
             => (redactedText' = redactedText /\ redactionMap' = redactionMap)]_vars

\* a text detected twice under one label, redacted twice: one map entry, and
\* both mentions replaced
C18_Witness ==
    /\ phase = "redacted twice"
    /\ Len(detectedEntities) = 2
    /\ detectedEntities[1].label = detectedEntities[2].label
    /\ detectedEntities[1].text = detectedEntities[2].text
    /\ detectedEntities[1].start # detectedEntities[2].start
    /\ Len(redactionMap) = 1
    /\ redactionMap[1][2] = detectedEntities[1].text
    /\ warned = <<>>
    /\ Len(redactedText) > 2 * Len(redactionMap[1][1])

(***************************************************************************)
(* reconcile.ts 135-169 : the checksum validators.                         *)
(***************************************************************************)
IsDigit(c) == c >= 48 /\ c <= 57

\* raw.replace(/\s+/g, '')
stripWs(raw) == SelectSeq(raw, LAMBDA c : ~IsSpace(c))

\* /^\d{lo,hi}$/.test(s)
isDigitString(s, lo, hi) ==
    Len(s) >= lo /\ Len(s) <= hi /\ \A i \in 1..Len(s) : IsDigit(s[i])

\* the % of JavaScript: the sign of the result is that of the dividend
jsRem(a, b) == IF a >= 0 THEN a % b ELSE 0 - ((0 - a) % b)

\* d.reduce((s, n, i) => s + n * w[i], 0) over the first Len(d) weights
RECURSIVE weightedSum(_, _)
weightedSum(d, w) ==
    IF d = <<>> THEN 0
    ELSE weightedSum(SubSeq(d, 1, Len(d) - 1), w) + d[Len(d)] * w[Len(d)]

\* s.split('').map(Number)
digitsOf(s) == [i \in 1..Len(s) |-> s[i] - 48]

\* isValidABN with the first digit left as it is
isValidABNNoDecrement(raw) ==
    LET abn == stripWs(raw)
    IN  /\ isDigitString(abn, 11, 11)
        /\ jsRem(weightedSum(digitsOf(abn), <<10, 1, 3, 5, 7, 9, 11, 13, 15, 17, 19>>), 89) = 0

isValidABN(raw) ==
    LET abn == stripWs(raw)
        d   == [digitsOf(abn) EXCEPT ![1] = @ - 1]
    IN  /\ isDigitString(abn, 11, 11)
        /\ jsRem(weightedSum(d, <<10, 1, 3, 5, 7, 9, 11, 13, 15, 17, 19>>), 89) = 0

isValidTFN(raw) ==
    LET s  == stripWs(raw)
        w8 == <<10, 7, 8, 4, 6, 3, 5, 2>>
        w9 == <<1, 4, 3, 7, 5, 8, 6, 9, 10>>
        w  == IF Len(s) = 9 THEN w9 ELSE w8
    IN  /\ isDigitString(s, 8, 9)
        /\ jsRem(weightedSum(digitsOf(s), w), 11) = 0

isValidMedicare(raw) ==
    LET s == stripWs(raw)
    IN  /\ isDigitString(s, 10, 11)
        /\ jsRem(weightedSum(digitsOf(slice(s, 0, 8)), <<1, 3, 7, 9, 1, 3, 7, 9>>), 10)
               = s[9] - 48

\* the for loop of luhnValid from index i (1-based) down to the first digit
RECURSIVE luhnLoop(_, _, _)
luhnLoop(s, i, dbl) ==
    IF i < 1 THEN 0
    ELSE LET d0 == s[i] - 48
             d1 == IF dbl THEN (IF d0 * 2 > 9 THEN d0 * 2 - 9 ELSE d0 * 2) ELSE d0
         IN  d1 + luhnLoop(s, i - 1, ~dbl)

luhnValid(raw) ==
    LET s == stripWs(raw)
    IN  /\ isDigitString(s, 12, 19)
        /\ jsRem(luhnLoop(s, Len(s), FALSE), 10) = 0

(***************************************************************************)
(* part_002 (RX) and detectStructured.ts : the structured detector.        *)
(* A match is the pair <<index, end>> of 0-based offsets.                  *)
(***************************************************************************)
WS == {32, 9, 10, 13}

\* \d{g1} sep? \d{g2} sep? ... from offset i on: the offset after the last
\* group, or -1.  An optional separator is taken whenever it is there: the
\* pattern has no other way on, since the next atom is a digit.
RECURSIVE groupsEnd(_, _, _, _, _)
groupsEnd(text, i, groups, k, seps) ==
    IF i + groups[k] > Len(text) \/ \E j \in 1..groups[k] : ~IsDigit(text[i + j])
    THEN -1
    ELSE LET n == i + groups[k]
         IN  IF k = Len(groups) THEN n
             ELSE groupsEnd(text,
                            IF n < Len(text) /\ text[n + 1] \in seps THEN n + 1 ELSE n,
                            groups, k + 1, seps)

\* /(?<!\d) groups (?!\d)/ at offset i: RX.ABN, RX.TFN, RX.MEDICARE
rxGroupsAt(text, i, groups) ==
    IF i > 0 /\ IsDigit(text[i]) THEN -1
    ELSE LET n == groupsEnd(text, i, groups, 1, WS)
         IN  IF n # -1 /\ (n = Len(text) \/ ~IsDigit(text[n + 1])) THEN n ELSE -1

\* (?:\d[ -]?)* from offset p on: the offsets after each digit taken, at most
\* 19 - k of them
RECURSIVE cardDigitEnds(_, _, _)
cardDigitEnds(text, p, k) ==
    IF k = 19 \/ p >= Len(text) \/ ~IsDigit(text[p + 1]) THEN <<>>
    ELSE <<p + 1>>
         \o cardDigitEnds(text,
                          IF p + 1 < Len(text) /\ text[p + 2] \in {32, 45} THEN p + 2 ELSE p + 1,
                          k + 1)

\* RX.CREDIT_CARD = /\b(?:\d[ -]?){12,19}\b/ at offset i: the longest
\* repetition first, the trailing separator first
rxCardAt(text, i) ==
    IF ~isBoundary(text, i) THEN -1
    ELSE LET q     == cardDigitEnds(text, i, 0)
             withSep(n) == /\ q[n] < Len(text) /\ text[q[n] + 1] \in {32, 45}
                           /\ isBoundary(text, q[n] + 1)
             ok    == {n \in 12..Len(q) : withSep(n) \/ isBoundary(text, q[n])}
         IN  IF ok = {} THEN -1
             ELSE LET n == CHOOSE m \in ok : \A o \in ok : o <= m
                  IN  IF withSep(n) THEN q[n] + 1 ELSE q[n]

\* RX.PHONE = /\b(?:\+?61\s?|0)([2-478])\s?\d{2,4}\s?\d{3}\s?\d{3}\b/ at offset i
rxPhoneAt(text, i) ==
    LET at(p)   == IF p < Len(text) THEN text[p + 1] ELSE 0
        skip(p) == IF at(p) \in WS THEN p + 1 ELSE p
        p0      == IF at(i) = 43 THEN i + 1 ELSE i
        p1      == IF at(p0) = 54 /\ at(p0 + 1) = 49 THEN skip(p0 + 2)
                   ELSE IF at(i) = 48 THEN i + 1 ELSE -1
        ends    == {n \in {2, 3, 4} :
                       /\ groupsEnd(text, skip(p1 + 1), <<n, 3, 3>>, 1, WS) # -1
                       /\ isBoundary(text, groupsEnd(text, skip(p1 + 1), <<n, 3, 3>>, 1, WS))}
    IN  IF ~isBoundary(text, i) \/ p1 = -1 \/ at(p1) \notin {50, 51, 52, 55, 56} \/ ends = {}
        THEN -1
        ELSE groupsEnd(text, skip(p1 + 1),
                       <<CHOOSE n \in ends : \A o \in ends : o <= n, 3, 3>>, 1, WS)

\* the while loop over re.exec(text): the leftmost match from lastIndex on,
\* then on from its end; ends[i + 1] is the end of the match at offset i, or -1
RECURSIVE execAll(_, _)
execAll(ends, from) ==
    LET starts == {i \in from..(Len(ends) - 1) : ends[i + 1] # -1}
    IN  IF starts = {} THEN <<>>
        ELSE LET i == CHOOSE m \in starts : \A o \in starts : m <= o
             IN  <<<<i, ends[i + 1]>>>> \o execAll(ends, ends[i + 1])

rxABN(text)      == execAll([i \in 1..Len(text) |-> rxGroupsAt(text, i - 1, <<2, 3, 3, 3>>)], 0)
rxTFN(text)      == execAll([i \in 1..Len(text) |-> rxGroupsAt(text, i - 1, <<3, 3, 3>>)], 0)
rxMEDICARE(text) == execAll([i \in 1..Len(text) |-> rxGroupsAt(text, i - 1, <<4, 5, 1>>)], 0)
rxCREDIT_CARD(text) == execAll([i \in 1..Len(text) |-> rxCardAt(text, i - 1)], 0)
rxPHONE(text)    == execAll([i \in 1..Len(text) |-> rxPhoneAt(text, i - 1)], 0)

\* the text contains the literal w
contains(text, w) == indexOf(text, w) # -1

\* a run of at least n digits
hasDigitRun(text, n) ==
    \E i \in 0..(Len(text) - n) : \A j \in 1..n : IsDigit(text[i + j])

\* What the remaining patterns of RX need before they can match: AFSL_AR a
\* cue word and six digits in a row, DOB a "/", EMAIL an "@", ADDRESS digits,
\* blanks and a capital letter, ORG_SUFFIX one of its suffix words.  On a text
\* with none of these they report nothing.
rxOthersSilent(text) ==
    /\ ~((\E i \in 1..Len(text) : lowerChar(text[i]) = 97) /\ hasDigitRun(text, 6))
    /\ ~\E i \in 1..Len(text) : text[i] \in {47, 64}
    /\ ~\E i \in 1..(Len(text) - 2) :
            IsDigit(text[i]) /\ text[i + 1] \in WS
            /\ \E j \in (i + 2)..Len(text) :
                  IsUpper(text[j]) /\ \A k \in (i + 1)..(j - 1) : text[k] \in WS
    /\ ~\E w \in {<<76, 116, 100>>, <<84, 114, 117, 115, 116>>, <<70, 117, 110, 100>>,
                  <<83, 117, 112, 101, 114>>, <<66, 97, 110, 107>>,
                  <<67, 111, 117, 110, 99, 105, 108>>,
                  <<68, 101, 112, 97, 114, 116, 109, 101, 110, 116>>} : contains(text, w)

\* push(m, label, ok) for every match fx accepts
RECURSIVE scan(_, _, _, _, _)
scan(text, matches, k, valid, label) ==
    IF k > Len(matches) THEN <<>>
    ELSE LET m == SubSeq(text, matches[k][1] + 1, matches[k][2])
         IN  (IF valid[k]
              THEN <<[text |-> m, label |-> label, start |-> matches[k][1],
                      end |-> matches[k][2], source |-> "regex"]>>
              ELSE <<>>)
             \o scan(text, matches, k + 1, valid, label)

matchText(text, m) == SubSeq(text, m[1] + 1, m[2])

\* detectStructured(text) on a text on which the patterns without digits
\* are silent
detectStructured(text) ==
    LET abn  == rxABN(text)
        tfn  == rxTFN(text)
        med  == rxMEDICARE(text)
        card == rxCREDIT_CARD(text)
        ph   == rxPHONE(text)
    IN  scan(text, abn, 1, [k \in 1..Len(abn) |-> isValidABN(matchText(text, abn[k]))], "ABN")
        \o scan(text, tfn, 1, [k \in 1..Len(tfn) |-> isValidTFN(matchText(text, tfn[k]))], "TFN")
        \o scan(text, med, 1,
                [k \in 1..Len(med) |-> isValidMedicare(matchText(text, med[k]))], "MEDICARE")
        \o scan(text, card, 1,
                [k \in 1..Len(card) |-> luhnValid(matchText(text, card[k]))], "CREDIT_CARD")
        \o scan(text, ph, 1, [k \in 1..Len(ph) |-> TRUE], "PHONE")

(***************************************************************************)
(* pii-detector.ts 57-225 : detectPII, detectAustralianPII, detectAll.     *)
(***************************************************************************)
WS_HYPHEN == WS \cup {45}

\* the offset after \s* from p on
RECURSIVE skipBlanks(_, _)
skipBlanks(text, p) ==
    IF p < Len(text) /\ text[p + 1] \in WS THEN skipBlanks(text, p + 1) ELSE p

\* where the digits start when the cue `word:?\s*` is taken at offset i
afterCue(text, i, word) ==
    LET p == i + Len(word)
    IN  skipBlanks(text, IF p < Len(text) /\ text[p + 1] = 58 THEN p + 1 ELSE p)

\* /\b(?:word:?\s*)?(groups)\b/ with [\s-]? between the groups, at offset i:
\* the offset where group 1 starts, or -1
cuedStart(text, i, word, groups) ==
    LET ok(p) == /\ groupsEnd(text, p, groups, 1, WS_HYPHEN) # -1
                 /\ isBoundary(text, groupsEnd(text, p, groups, 1, WS_HYPHEN))
    IN  IF ~isBoundary(text, i) THEN -1
        ELSE IF i + Len(word) <= Len(text) /\ SubSeq(text, i + 1, i + Len(word)) = word
                /\ ok(afterCue(text, i, word))
        THEN afterCue(text, i, word)
        ELSE IF ok(i) THEN i ELSE -1

cuedEnd(text, i, word, groups) ==
    IF cuedStart(text, i, word, groups) = -1 THEN -1
    ELSE groupsEnd(text, cuedStart(text, i, word, groups), groups, 1, WS_HYPHEN)

\* /\b(?:\+61[\s-]?)?0[2-9](?:[\s-]?\d){8}\b/ at offset i, on a text without "+"
ausPhoneAt(text, i) ==
    LET p == IF i + 2 < Len(text) /\ text[i + 3] \in WS_HYPHEN THEN i + 3 ELSE i + 2
        n == groupsEnd(text, p, <<1, 1, 1, 1, 1, 1, 1, 1>>, 1, WS_HYPHEN)
    IN  IF /\ isBoundary(text, i)
           /\ i + 2 <= Len(text) /\ text[i + 1] = 48 /\ text[i + 2] >= 50 /\ text[i + 2] <= 57
           /\ n # -1 /\ isBoundary(text, n)
        THEN n ELSE -1

\* /\b(?:\d{4}[\s-]?){3}\d{4}\b/ at offset i
ausCardAt(text, i) ==
    LET n == groupsEnd(text, i, <<4, 4, 4, 4>>, 1, WS_HYPHEN)
    IN  IF isBoundary(text, i) /\ n # -1 /\ isBoundary(text, n) THEN n ELSE -1

\* the offset after \d{lo,hi} taken greedily from p on, or -1
digitRunEnd(text, p, lo, hi) ==
    LET ns == {n \in lo..hi : p + n <= Len(text) /\ \A j \in 1..n : IsDigit(text[p + j])}
    IN  IF ns = {} THEN -1 ELSE p + (CHOOSE n \in ns : \A o \in ns : o <= n)

\* /\b(\d{3}[\s-]\d{3}[\s-]\d{4,10})\b/ at offset i
ausBankAccountAt(text, i) ==
    LET sepAt(p) == p < Len(text) /\ text[p + 1] \in WS_HYPHEN
        n == digitRunEnd(text, i + 8, 4, 10)
    IN  IF /\ isBoundary(text, i)
           /\ digitRunEnd(text, i, 3, 3) # -1 /\ sepAt(i + 3)
           /\ digitRunEnd(text, i + 4, 3, 3) # -1 /\ sepAt(i + 7)
           /\ n # -1 /\ isBoundary(text, n)
        THEN n ELSE -1

T_ABN == <<65, 66, 78>>                                     \* "ABN"
T_TFN == <<84, 70, 78>>                                     \* "TFN"
T_MEDICARE == <<77, 101, 100, 105, 99, 97, 114, 101>>       \* "Medicare"

\* What the other patterns of detectAustralianPII need before they can match:
\* a ":" after their cue word, a "$", an "@", a "/" or "-" in a date, a "+"
\* before 61, a state and a four-digit postcode, the name of a bank.
ausOthersSilent(text) ==
    /\ ~\E i \in 1..Len(text) : text[i] \in {58, 36, 64, 47, 45, 43}
    /\ ~\E i \in 1..(Len(text) - 1) :
            IsLetter(text[i]) /\ text[i + 1] \in WS
            /\ digitRunEnd(text, skipBlanks(text, i), 4, 4) # -1
    /\ ~\E w \in {<<97, 110, 122>>, <<110, 97, 98>>, <<119, 101, 115, 116, 112, 97, 99>>,
                  <<98, 97, 110, 107>>, <<99, 98, 97>>, <<105, 110, 103>>,
                  <<109, 97, 99, 113, 117, 97, 114, 105, 101>>,
                  <<103, 101, 111, 114, 103, 101>>, <<115, 117, 110, 99, 111, 114, 112>>} :
            contains(toLowerCase(text), w)

\* entities.push({text, label, start, end, score: 1.0}) for the matches of one pattern
ausPush(text, matches, starts, label) ==
    [k \in 1..Len(matches) |->
        [text |-> SubSeq(text, starts[k] + 1, matches[k][2]), label |-> label,
         start |-> starts[k], end |-> matches[k][2], score |-> 100]]

\* the matches of a cued pattern and their entities
ausCued(text, word, groups, label) ==
    LET ms == execAll([i \in 1..Len(text) |-> cuedEnd(text, i - 1, word, groups)], 0)
    IN  ausPush(text, ms, [k \in 1..Len(ms) |-> cuedStart(text, ms[k][1], word, groups)], label)

ausPlain(text, ends, label) ==
    LET ms == execAll(ends, 0)
    IN  ausPush(text, ms, [k \in 1..Len(ms) |-> ms[k][1]], label)

\* detectAustralianPII(text) on a text on which the other patterns are silent
detectAustralianPII(text) ==
    ausCued(text, T_ABN, <<2, 3, 3, 3>>, "ABN")
    \o ausCued(text, T_TFN, <<3, 3, 3>>, "TFN")
    \o ausCued(text, T_MEDICARE, <<4, 5, 1>>, "Medicare Number")
    \o ausPlain(text, [i \in 1..Len(text) |-> ausPhoneAt(text, i - 1)], "Phone Number")
    \o ausPlain(text, [i \in 1..Len(text) |-> ausCardAt(text, i - 1)], "Credit Card")
    \o ausPlain(text, [i \in 1..Len(text) |-> ausBankAccountAt(text, i - 1)], "Bank Account")

\* what the classifier can answer on text: a capitalised word as an
\* organisation or as miscellaneous, with some confidence
nerAnswers(text) ==
    LET words == {sp \in (0..(Len(text) - 1)) \X (1..Len(text)) :
                     /\ sp[1] < sp[2]
                     /\ IsUpper(text[sp[1] + 1])
                     /\ isBoundary(text, sp[1]) /\ isBoundary(text, sp[2])
                     /\ \A j \in (sp[1] + 1)..sp[2] : IsLetter(text[j])}
    IN  {[text |-> SubSeq(text, sp[1] + 1, sp[2]), label |-> l, start |-> sp[1],
          end |-> sp[2], score |-> s] :
            sp \in words, l \in {"Organization", "Miscellaneous"}, s \in {60, 90}}

\* detectPII: the answers with a score above 0.7
detectPII(answers) == SelectSeq(answers, LAMBDA e : e.score > 70)

\* detectAll(text), aiEntities being what detectPII returned
detectAll(text, aiEntities) ==
    sortAscByStart(uniqueBySpan(aiEntities \o detectAustralianPII(text)))

(***************************************************************************)
(* The detectors on identifier numbers and on the fixture of the           *)
(* evaluation harness.                                                     *)
(***************************************************************************)
D_ABN_VALID   == <<56, 51, 57, 49, 52, 53, 55, 49, 54, 55, 51>>   \* "83914571673"
D_ABN_INVALID == <<49, 50, 51, 52, 53, 54, 55, 56, 57, 48, 49>>   \* "12345678901"
D_TFN9        == <<49, 50, 51, 52, 53, 54, 55, 56, 50>>           \* "123456782"
D_TFN8        == <<49, 50, 51, 52, 53, 54, 55, 57>>               \* "12345679"
D_MEDICARE    == <<50, 57, 53, 49, 54, 52, 48, 51, 56, 49>>       \* "2951640381"
D_CARD        == <<52, 49, 49, 49, 49, 49, 49, 49, 49, 49, 49, 49, 49, 49, 49, 49>>

\* the digits written in groups separated by one blank
RECURSIVE grouped(_, _)
grouped(digits, groups) ==
    IF Len(groups) <= 1 THEN digits
    ELSE SubSeq(digits, 1, groups[1]) \o <<32>>
         \o grouped(SubSeq(digits, groups[1] + 1, Len(digits)), Tail(groups))

\* a number, the numbers that differ from it in one digit, and the numbers
\* one digit shorter and one digit longer
NumbersNear(digits) ==
    {digits} \cup {[digits EXCEPT ![p] = 48 + d] : p \in 1..Len(digits), d \in {0, 4, 9}}
    \cup {SubSeq(digits, 1, Len(digits) - 1), digits \o <<48>>}

\* written compactly and in the groups of its kind
Written(digits, groups) ==
    {n : n \in NumbersNear(digits)}
    \cup {grouped(n, groups) : n \in {m \in NumbersNear(digits) : Len(m) = Len(digits)}}

\* 'Client ABN is 83 914 571 673 and TFN 123 456 782.'
FIXTURE_ABN_TFN ==
    <<67, 108, 105, 101, 110, 116, 32>> \o T_ABN \o <<32, 105, 115, 32>>
    \o grouped(D_ABN_VALID, <<2, 3, 3, 3>>) \o <<32, 97, 110, 100, 32>> \o T_TFN \o <<32>>
    \o grouped(D_TFN9, <<3, 3, 3>>) \o <<46>>

CheckTexts ==
    {t \in Written(D_ABN_VALID, <<2, 3, 3, 3>>) \cup Written(D_ABN_INVALID, <<2, 3, 3, 3>>)
           \cup Written(D_TFN9, <<3, 3, 3>>) \cup Written(D_TFN8, <<3, 3, 2>>)
           \cup Written(D_MEDICARE, <<4, 5, 1>>) \cup Written(D_CARD, <<4, 4, 4, 4>>)
           \cup {FIXTURE_ABN_TFN} :
        rxOthersSilent(t) /\ ausOthersSilent(t)}

CheckInit ==
    /\ inputText \in CheckTexts
    /\ detectedText = <<>>
    /\ detectedEntities = <<>>
    /\ redactedText = <<>>
    /\ redactionMap = <<>>
    /\ warned = <<>>
    /\ engine = "none"
    /\ phase = "idle"
    /\ RecIdle /\ SemIdle /\ VaultIdle /\ HostIdle

\* detectStructured(inputText)
DetectStructured ==
    /\ phase = "idle"
    /\ detectedEntities' = detectStructured(inputText)
    /\ detectedText' = inputText
    /\ phase' = "structured"
    /\ UNCHANGED <<inputText, redactedText, redactionMap, warned, engine>>
    /\ UNCHANGED <<recVars, semVars, vaultVars, hostVars>>

\* runEval: detector.detectAll(f.text), the classifier answering something
DetectAll ==
    /\ phase = "idle"
    /\ \E answers \in ListsUpTo(nerAnswers(inputText), 1) :
          detectedEntities' = detectAll(inputText, detectPII(answers))
    /\ detectedText' = inputText
    /\ phase' = "detected"
    /\ UNCHANGED <<inputText, redactedText, redactionMap, warned, engine>>
    /\ UNCHANGED <<recVars, semVars, vaultVars, hostVars>>

CheckNext == DetectStructured \/ DetectAll

SpecCheck == CheckInit /\ [][CheckNext]_vars

\* the digit at position i of s
DigitAt(s, i) == s[i] - 48

AllDigits(s) == \A i \in 1..Len(s) : s[i] \in 48..57

\* the rule of the ABN
ABNRule(raw) ==
    LET s == stripWs(raw)
    IN  /\ Len(s) = 11 /\ AllDigits(s)
        /\ \E q \in 0..11 :
              89 * q = 10 * (DigitAt(s, 1) - 1) + DigitAt(s, 2) + 3 * DigitAt(s, 3)
                       + 5 * DigitAt(s, 4) + 7 * DigitAt(s, 5) + 9 * DigitAt(s, 6)
                       + 11 * DigitAt(s, 7) + 13 * DigitAt(s, 8) + 15 * DigitAt(s, 9)
                       + 17 * DigitAt(s, 10) + 19 * DigitAt(s, 11)

\* the rule of the TFN, with the weights of the 8-digit and the 9-digit form
TFNRule(raw) ==
    LET s == stripWs(raw)
    IN  /\ AllDigits(s)
        /\ \/ /\ Len(s) = 8
              /\ (10 * DigitAt(s, 1) + 7 * DigitAt(s, 2) + 8 * DigitAt(s, 3)
                  + 4 * DigitAt(s, 4) + 6 * DigitAt(s, 5) + 3 * DigitAt(s, 6)
                  + 5 * DigitAt(s, 7) + 2 * DigitAt(s, 8)) % 11 = 0
           \/ /\ Len(s) = 9
              /\ (DigitAt(s, 1) + 4 * DigitAt(s, 2) + 3 * DigitAt(s, 3) + 7 * DigitAt(s, 4)
                  + 5 * DigitAt(s, 5) + 8 * DigitAt(s, 6) + 6 * DigitAt(s, 7)
                  + 9 * DigitAt(s, 8) + 10 * DigitAt(s, 9)) % 11 = 0

\* the rule of the Medicare number
MedicareRule(raw) ==
    LET s == stripWs(raw)
    IN  /\ Len(s) \in {10, 11} /\ AllDigits(s)
        /\ (DigitAt(s, 1) + 3 * DigitAt(s, 2) + 7 * DigitAt(s, 3) + 9 * DigitAt(s, 4)
            + DigitAt(s, 5) + 3 * DigitAt(s, 6) + 7 * DigitAt(s, 7) + 9 * DigitAt(s, 8)) % 10
           = DigitAt(s, 9)

\* the Luhn total of the digits from position i on: every second digit,
\* counted from the right, doubled and reduced by 9 when above 9
RECURSIVE LuhnTotal(_, _)
LuhnTotal(s, i) ==
    IF i > Len(s) THEN 0
    ELSE LET d == DigitAt(s, i)
         IN  (IF (Len(s) - i) % 2 = 0 THEN d ELSE IF d >= 5 THEN 2 * d - 9 ELSE 2 * d)
             + LuhnTotal(s, i + 1)

LuhnRule(raw) ==
    LET s == stripWs(raw)
    IN  Len(s) \in 12..19 /\ AllDigits(s) /\ LuhnTotal(s, 1) % 10 = 0

\* the entities of the list with the label l
WithLabel(ents, l) == SelectSeq(ents, LAMBDA e : e.label = l)

C20_FixtureOneAbnOneTfn ==
    (inputText = FIXTURE_ABN_TFN /\ phase \in {"structured", "detected"}) =>
        \E abn \in {WithLabel(detectedEntities, "ABN")} :
        \E tfn \in {WithLabel(detectedEntities, "TFN")} :
            /\ Len(abn) = 1 /\ Len(tfn) = 1
            /\ ABNRule(abn[1].text) /\ TFNRule(tfn[1].text)
            /\ (abn[1].end <= tfn[1].start \/ tfn[1].end <= abn[1].start)

\* C20 for detectStructured alone
C20_FixtureStructured ==
    (inputText = FIXTURE_ABN_TFN /\ phase = "structured") =>
        \E abn \in {WithLabel(detectedEntities, "ABN")} :
        \E tfn \in {WithLabel(detectedEntities, "TFN")} :
            /\ Len(abn) = 1 /\ Len(tfn) = 1
            /\ ABNRule(abn[1].text) /\ TFNRule(tfn[1].text)
            /\ (abn[1].end <= tfn[1].start \/ tfn[1].end <= abn[1].start)


(***************************************************************************)
(* Loading files: handleFileUpload, handleImportMapping and                *)
(* handleImportEncryptedMapping of the PIIDetector component.              *)
(***************************************************************************)
MAX_JSON_SIZE == 1048576           \* 1 * 1024 * 1024
MAX_UPLOAD_SIZE == 10485760        \* 10 * 1024 * 1024

NotJson == [json |-> "SyntaxError"]

\* a file content: its length in UTF-16 code units, the number of '{' and of
\* '{' or '[' in it, its text without the white space that pads it to the
\* length, and what JSON.parse makes of it
Content(length, braces, opens, text, value) ==
    [length |-> length, braces |-> braces, opens |-> opens, text |-> text, value |-> value]

\* a legacy mapping entry (key -> string) and a semantic one (key -> object)
LegacyEntry(key, value) == [key |-> key, type |-> "string", value |-> [string |-> value]]
ObjectEntry(key, value) == [key |-> key, type |-> "object", value |-> value]

T_KEY == <<80, 95, 49>>                                     \* "P_1"
T_PAD_AL == <<32, 65, 108, 32>>                             \* " Al "
T_BINARY == <<0, 1, 65>>

\* the mapping objects of the files
FileMappings ==
    { <<>>,
      << LegacyEntry(T_KEY, T_PAD_AL) >>,
      << LegacyEntry(T_KEY, <<32>>) >>,
      << ObjectEntry(T_KEY, buildRedactionEntry(W_AL_UPPER, "PERSON",
                                                normalizeForKey(W_AL_UPPER))) >> }

\* the values JSON.parse yields for the files of the model: a mapping
\* document, an object without mapping, an encrypted artifact
JsonValues ==
    { [version |-> "2.0", mode |-> "semantic", mapping |-> m] : m \in FileMappings }
    \cup { [version |-> "2.0"] }
    \cup { encryptJSON([version |-> "2.0", mode |-> "semantic", mapping |-> m],
                       "alpha", ivOf(7), saltOf(7)) : m \in FileMappings \ {<<>>} }

\* contents short enough to be written out: length = Len(text)
SmallContents ==
    { Content(20, 2, 2, <<>>, v) : v \in JsonValues }
    \cup { Content(20, 0, 0, <<>>, NotJson),
           Content(300, 101, 101, <<>>, [version |-> "2.0"]),
           Content(30000, 2, 10001, <<>>, [version |-> "2.0"]),
           Content(5, 0, 0, W_AL_UPPER \o <<32>> \o W_CARD, NotJson),
           Content(3, 0, 0, T_BINARY, NotJson) }

\* a content padded with white space to the length n
padded(c, n) == [c EXCEPT !.length = n]

FileSizes == {MAX_JSON_SIZE, MAX_JSON_SIZE + 1, MAX_UPLOAD_SIZE, MAX_UPLOAD_SIZE + 1}
FileNames == {"mapping.json", "notes.txt"}
FileTypes == {"", "text/plain", "application/json"}

\* the files a user can pick: size in bytes, content of as many code units
Files ==
    { [kind |-> "file", name |-> n, type |-> t, size |-> c.length, content |-> c] :
          n \in FileNames, t \in FileTypes, c \in SmallContents }
    \cup { [kind |-> "file", name |-> n, type |-> t, size |-> s, content |-> padded(c, s)] :
          n \in FileNames, t \in FileTypes, s \in FileSizes,
          c \in {d \in SmallContents : d.length = 20 \/ d.length = 5} }

endsWithJson(name) == name = "mapping.json"
startsWithText(type) == type = "text/plain"

LoadInit ==
    /\ SemStart({<<>>}) /\ irreversible = FALSE
    /\ PosIdle /\ RecIdle /\ VaultIdle /\ HostIdle

\* the user picks a file in a file input
PickFile ==
    /\ picked = NoFile
    /\ picked' \in Files
    /\ UNCHANGED <<loadLog, classifier, isLoading, calls, invoked>>
    /\ UNCHANGED <<posVars, recVars, semVars, vaultVars>>

StartLoad(handler, steps) == [handler |-> handler, file |-> picked, steps |-> steps]
Step(s) == [loadLog EXCEPT !.steps = Append(@, s)]

\* handleFileUpload up to reader.readAsText(file)
HandleFileUpload ==
    /\ picked # NoFile /\ loadLog = NoLoad
    /\ IF picked.size > MAX_UPLOAD_SIZE
       THEN toast' = "File Too Large" /\ loadLog' = StartLoad("upload", <<>>)
       ELSE IF picked.type # "" /\ ~startsWithText(picked.type)
       THEN toast' = "Invalid File Type" /\ loadLog' = StartLoad("upload", <<>>)
       ELSE toast' = toast /\ loadLog' = StartLoad("upload", <<"readAsText">>)
    /\ UNCHANGED <<picked, classifier, isLoading, calls, invoked>>
    /\ UNCHANGED <<semInput, semEntities, irreversible, semRedacted, semanticMap, semMode,
                   semMapArg, semUnredacted, selection, semPhase>>
    /\ UNCHANGED <<posVars, recVars, vaultVars>>

\* the characters /[\x00-\x08\x0B-\x0C\x0E-\x1F\x7F-\x9F]/ matches
nonPrintableCount(text) ==
    Cardinality({i \in 1..Len(text) :
                    text[i] \in (0..8) \cup {11, 12} \cup (14..31) \cup (127..159)})

\* reader.onload of handleFileUpload
UploadOnLoad ==
    /\ loadLog # NoLoad /\ loadLog.handler = "upload" /\ loadLog.steps = <<"readAsText">>
    /\ \E content \in {loadLog.file.content} :
          IF content.length > MAX_UPLOAD_SIZE
          THEN /\ toast' = "Content Too Large"
               /\ loadLog' = Step("onload")
               /\ UNCHANGED semInput
          ELSE IF nonPrintableCount(content.text) * 10 > content.length
          THEN /\ toast' = "Invalid Content"
               /\ loadLog' = Step("onload")
               /\ UNCHANGED semInput
          ELSE /\ semInput' = content.text
               /\ toast' = "File Loaded"
               /\ loadLog' = [loadLog EXCEPT !.steps = @ \o <<"onload", "setInputText">>]
    /\ UNCHANGED <<picked, classifier, isLoading, calls, invoked>>
    /\ UNCHANGED <<semEntities, irreversible, semRedacted, semanticMap, semMode,
                   semMapArg, semUnredacted, selection, semPhase>>
    /\ UNCHANGED <<posVars, recVars, vaultVars>>

\* handleImportMapping up to reader.readAsText(file)
HandleImportMapping ==
    /\ picked # NoFile /\ loadLog = NoLoad
    /\ IF picked.size > MAX_JSON_SIZE
       THEN toast' = "File Too Large" /\ loadLog' = StartLoad("import", <<>>)
       ELSE IF ~endsWithJson(picked.name)
       THEN toast' = "Invalid File Type" /\ loadLog' = StartLoad("import", <<>>)
       ELSE toast' = toast /\ loadLog' = StartLoad("import", <<"readAsText">>)
    /\ UNCHANGED <<picked, classifier, isLoading, calls, invoked>>
    /\ UNCHANGED <<semInput, semEntities, irreversible, semRedacted, semanticMap, semMode,
                   semMapArg, semUnredacted, selection, semPhase>>
    /\ UNCHANGED <<posVars, recVars, vaultVars>>

\* the entry handleImportMapping keeps for one [key, value] of data.mapping,
\* or nothing
RECURSIVE validatePlain(_, _)
validatePlain(map, entries) ==
    IF entries = <<>> THEN map
    ELSE LET e == Head(entries)
         IN  IF e.type = "string"
             THEN LET sanitizedKey   == trim(substring(e.key, 0, 500))
                      sanitizedValue == trim(substring(e.value.string, 0, 1000))
                  IN  validatePlain(
                          IF sanitizedKey # <<>> /\ sanitizedValue # <<>>
                          THEN MapSet(map, sanitizedKey,
                                      [label |-> "OTHER", full |-> sanitizedValue,
                                       canonical |-> toLowerCase(sanitizedValue)])
                          ELSE map,
                          Tail(entries))
             ELSE validatePlain(MapSet(map, e.key, e.value), Tail(entries))

\* reader.onload of handleImportMapping: [steps, toast, map]
importPlain(content, current) ==
    IF content.length > MAX_JSON_SIZE \/ content.braces > 100 \/ content.opens > 10000
    THEN [steps |-> <<"onload">>, toast |-> "Import Failed", map |-> current]
    ELSE IF content.value = NotJson
    THEN [steps |-> <<"onload", "JSON.parse">>, toast |-> "Import Failed", map |-> current]
    ELSE IF "mapping" \notin DOMAIN content.value
            \/ validatePlain(<<>>, content.value.mapping) = <<>>
    THEN [steps |-> <<"onload", "JSON.parse">>, toast |-> "Import Failed", map |-> current]
    ELSE [steps |-> <<"onload", "JSON.parse", "setRedactionMap">>,
          toast |-> "Mapping Imported",
          map |-> validatePlain(<<>>, content.value.mapping)]

ImportOnLoad ==
    /\ loadLog # NoLoad /\ loadLog.handler = "import" /\ loadLog.steps = <<"readAsText">>
    /\ \E r \in {importPlain(loadLog.file.content, semanticMap)} :
          /\ semanticMap' = r.map
          /\ toast' = r.toast
          /\ loadLog' = [loadLog EXCEPT !.steps = @ \o r.steps]
    /\ UNCHANGED <<picked, classifier, isLoading, calls, invoked>>
    /\ UNCHANGED <<semInput, semEntities, irreversible, semRedacted, semMode,
                   semMapArg, semUnredacted, selection, semPhase>>
    /\ UNCHANGED <<posVars, recVars, vaultVars>>

\* the entries handleImportEncryptedMapping keeps
RECURSIVE validateEncrypted(_, _)
validateEncrypted(map, entries) ==
    IF entries = <<>> THEN map
    ELSE LET e == Head(entries)
         IN  validateEncrypted(
                 MapSet(map, e.key,
                        IF e.type = "object" THEN e.value
                        ELSE [label |-> "OTHER", full |-> e.value.string,
                              canonical |-> toLowerCase(e.value.string)]),
                 Tail(entries))

\* handleImportEncryptedMapping with the file picked and a passphrase
\* entered: [steps, toast, map]
importEncrypted(file, pass, current) ==
    IF file.content.value = NotJson
    THEN [steps |-> <<"file.text", "JSON.parse">>, toast |-> "Import Failed",
          map |-> current]
    ELSE LET d == decryptJSON(file.content.value, pass)
         IN  IF d.threw \/ "mapping" \notin DOMAIN d.value
                \/ validateEncrypted(<<>>, d.value.mapping) = <<>>
             THEN [steps |-> <<"file.text", "JSON.parse", "decryptJSON">>,
                   toast |-> "Import Failed", map |-> current]
             ELSE [steps |-> <<"file.text", "JSON.parse", "decryptJSON", "setRedactionMap">>,
                   toast |-> "Encrypted Mapping Imported",
                   map |-> validateEncrypted(<<>>, d.value.mapping)]

\* handleImportEncryptedMapping: the prompt yields a passphrase or nothing
HandleImportEncryptedMapping ==
    /\ picked # NoFile /\ loadLog = NoLoad
    /\ \E pass \in Passphrases \cup {NoPass} :
          IF pass = NoPass
          THEN /\ loadLog' = StartLoad("encrypted", <<>>)
               /\ UNCHANGED <<semanticMap, toast>>
          ELSE \E r \in {importEncrypted(picked, pass, semanticMap)} :
                  /\ semanticMap' = r.map
                  /\ toast' = r.toast
                  /\ loadLog' = StartLoad("encrypted", r.steps)
    /\ UNCHANGED <<picked, classifier, isLoading, calls, invoked>>
    /\ UNCHANGED <<semInput, semEntities, irreversible, semRedacted, semMode,
                   semMapArg, semUnredacted, selection, semPhase>>
    /\ UNCHANGED <<posVars, recVars, vaultVars>>

LoadNext ==
    \/ PickFile \/ HandleFileUpload \/ UploadOnLoad
    \/ HandleImportMapping \/ ImportOnLoad \/ HandleImportEncryptedMapping

SpecLoad == LoadInit /\ [][LoadNext]_vars

\* the size limit of each loading path; the encrypted import has none of its
\* own in the code and is held to the largest limit of the component
SizeLimit(handler) == IF handler = "import" THEN MAX_JSON_SIZE ELSE MAX_UPLOAD_SIZE

ContentSteps == {"readAsText", "file.text", "onload", "JSON.parse", "decryptJSON"}

\* a handler ran on a file and was not abandoned at the passphrase prompt
Loaded == loadLog # NoLoad /\ ~(loadLog.handler = "encrypted" /\ loadLog.steps = <<>>)

\* C21: every loading path (file upload, plain mapping import, encrypted
\* mapping import) rejects a file larger than its size limit with a
\* size-limit error before the content is read, parsed or decrypted.
C21_OversizedRejectedUpFront ==
    (Loaded /\ loadLog.file.size > SizeLimit(loadLog.handler)) =>
        /\ \A i \in 1..Len(loadLog.steps) : loadLog.steps[i] \notin ContentSteps
        /\ toast = "File Too Large"

\* C21 for the two paths that use a FileReader
C21_ReaderPathsReject ==
    (loadLog # NoLoad /\ loadLog.handler \in {"upload", "import"}
     /\ loadLog.file.size > SizeLimit(loadLog.handler)) =>
        /\ loadLog.steps = <<>>
        /\ toast = "File Too Large"


(***************************************************************************)
(* Semantic redaction of values with non-word edges and of values that     *)
(* are words of the placeholders.                                          *)
(***************************************************************************)
W_PLUS41 == <<43, 52, 49>>                                  \* "+41"
W_PAREN41 == <<40, 52, 49, 41>>                             \* "(41)"
W_FULL == <<70, 117, 108, 108>>                             \* "Full"

EdgeWords == {W_AL_UPPER, W_CARD, W_PLUS41, W_PAREN41, W_FULL}

\* what detectAll can report on text: a word of letters as PERSON, two
\* adjacent words of letters as one PERSON, any other word as PHONE
EdgeEntitiesOf(text) ==
    {e \in SemEntitiesOf(text) : e.label = "PERSON" /\ \A i \in 1..Len(e.text) :
                                     IsLetter(e.text[i]) \/ e.text[i] = 32}
    \cup {[e EXCEPT !.label = "PHONE"] :
             e \in {x \in SemEntitiesOf(text) :
                       \A i \in 1..Len(x.text) : ~IsLetter(x.text[i]) /\ x.text[i] # 32}}

EdgeInit ==
    /\ SemStart(SemDocsOf(EdgeWords)) /\ irreversible = FALSE
    /\ PosIdle /\ RecIdle /\ VaultIdle /\ HostIdle

\* detectAll returns an entity list
EdgeDetect ==
    /\ semPhase = "idle"
    /\ \E ents \in ListsUpTo(EdgeEntitiesOf(semInput), MaxEnts) : semEntities' = ents
    /\ toast' = "Detection Complete"
    /\ semPhase' = "detected"
    /\ UNCHANGED <<semInput, irreversible, semRedacted, semanticMap, semMode,
                   semMapArg, semUnredacted, selection>>
    /\ UNCHANGED <<posVars, recVars, vaultVars, hostVars>>

EdgeNext == EdgeDetect \/ RedactSemanticBare \/ SemRedact

SpecEdge == EdgeInit /\ [][EdgeNext]_vars

\* needle occurs in s at offset i in any letter case, with a non-word
\* character or an end of the document on each side
delimitedAt(s, i, needle) ==
    /\ matchCI(s, i, needle)
    /\ (i = 0 \/ ~IsWord(s[i]))
    /\ (i + Len(needle) = Len(s) \/ ~IsWord(s[i + Len(needle) + 1]))

\* the body of the redacted document (the front matter set aside)
redactedBody ==
    IF semMode = "frontmatter" THEN extractFrontMatter(semRedacted).body ELSE semRedacted

\* C22: after redactTextSemantic the body holds no remaining occurrence, in
\* any letter case and delimited by non-word characters or the ends of the
\* document, of the full value of any map entry.
C22_NoFullValueLeft ==
    (semPhase = "redacted" /\ semMode = "bare") =>
        \A k \in 1..Len(semanticMap) :
            \A i \in 0..Len(semRedacted) :
                ~delimitedAt(semRedacted, i, semanticMap[k][2].full)

\* C22 for the values that begin and end with a word character and are no
\* word of a placeholder
C22_WordValuesReplaced ==
    (semPhase = "redacted" /\ semMode = "bare") =>
        \A k \in 1..Len(semanticMap) :
            \E full \in {semanticMap[k][2].full} :
                (IsWord(full[1]) /\ IsWord(full[Len(full)]) /\ toUpperCase(full) # V_FULL) =>
                    \A i \in 0..Len(semRedacted) : ~delimitedAt(semRedacted, i, full)

\* the replacement passes of redactTextSemantic in the order they run: for
\* each entry, longest full value first, FULL and then FIRST and LAST
passesOfEntry(key, entry, options) ==
    LET person == entry.label = "PERSON" /\ options.redactPersonFirstLast
        first  == IF "first" \in DOMAIN entry THEN entry.first ELSE <<>>
        last   == IF "last" \in DOMAIN entry THEN entry.last ELSE <<>>
    IN  << [needle |-> entry.full, ph |-> placeholder(key, V_FULL)] >>
        \o (IF person /\ first # <<>> /\ first # entry.full
            THEN << [needle |-> first, ph |-> placeholder(key, V_FIRST)] >> ELSE <<>>)
        \o (IF person /\ last # <<>> /\ last # entry.full
            THEN << [needle |-> last, ph |-> placeholder(key, V_LAST)] >> ELSE <<>>)

RECURSIVE passesOf(_, _)
passesOf(entries, options) ==
    IF entries = <<>> THEN <<>>
    ELSE passesOfEntry(entries[1][1], entries[1][2], options)
         \o passesOf(Tail(entries), options)

\* the document after the first n passes
RECURSIVE afterPasses(_, _, _, _)
afterPasses(text, passes, n, options) ==
    IF n = 0 THEN text
    ELSE replaceAllWordBoundary(afterPasses(text, passes, n - 1, options),
                                passes[n].needle, passes[n].ph, options.caseInsensitive)

\* the number of replacements haystack.replace(rx, replacement) makes
RECURSIVE replacements(_, _, _, _)
replacements(haystack, needle, caseInsensitive, from) ==
    LET hits == {i \in from..(Len(haystack) - Len(needle)) :
                    wordMatchAt(haystack, i, needle, caseInsensitive)}
    IN  IF needle = <<>> \/ hits = {} THEN 0
        ELSE 1 + replacements(haystack, needle, caseInsensitive,
                              (CHOOSE h \in hits : \A g \in hits : h <= g) + Len(needle))

\* the number of places where s holds w
occurrences(s, w) == Cardinality({i \in 0..(Len(s) - Len(w)) : startsWithAt(s, i, w)})

BareOptions == [HandlerOptions EXCEPT !.embedFrontMatter = FALSE]

\* C23: no replacement pass matches text inside a placeholder inserted by an
\* earlier pass: every placeholder written into the document is still
\* present intact in the final output.
C23_PlaceholdersStayIntact ==
    (semPhase = "redacted" /\ semMode = "bare") =>
        \E passes \in {passesOf(sortByFullLen(semanticMap), BareOptions)} :
            /\ afterPasses(semInput, passes, Len(passes), BareOptions) = semRedacted
            /\ \A n \in 1..Len(passes) :
                  occurrences(semRedacted, passes[n].ph)
                  = replacements(afterPasses(semInput, passes, n - 1, BareOptions),
                                 passes[n].needle, TRUE, 0)

\* the pass list computes what redactTextSemantic computes
C23_PassesAreTheRedaction ==
    (semPhase = "redacted" /\ semMode = "bare") =>
        \E passes \in {passesOf(sortByFullLen(semanticMap), BareOptions)} :
            afterPasses(semInput, passes, Len(passes), BareOptions) = semRedacted


(***************************************************************************)
(* createRedactionMap on names of three letters: stableId keeps the first  *)
(* six of the seven hexadecimal digits of their hash.                      *)
(***************************************************************************)
W_EVE == <<69, 118, 101>>                                   \* "Eve"
W_EVA == <<69, 118, 97>>                                    \* "Eva"

NameWords == {W_EVE, W_EVA, W_AL_UPPER, W_CARD}

NameInit ==
    /\ SemStart(SemDocsOf(NameWords)) /\ irreversible = FALSE
    /\ PosIdle /\ RecIdle /\ VaultIdle /\ HostIdle

NameNext == KeyDetect \/ RedactSemanticBare

SpecNames == NameInit /\ [][NameNext]_vars

\* C24: createRedactionMap loses no value: two entities with the same label
\* whose normalized texts differ get different keys, and every input entity
\* has a map entry whose canonical is its own normalized text.
C24_NoValueLost ==
    (semPhase = "redacted" /\ semMode = "bare") =>
        /\ \A i, j \in 1..Len(semEntities) :
              (/\ semEntities[i].label = semEntities[j].label
               /\ normalizeForKey(semEntities[i].text) # normalizeForKey(semEntities[j].text))
              => semanticKey(semEntities[i]) # semanticKey(semEntities[j])
        /\ \A i \in 1..Len(semEntities) :
              \E k \in 1..Len(semanticMap) :
                  semanticMap[k][2].canonical = normalizeForKey(semEntities[i].text)

\* C24 for values of at most two characters, whose hash has at most six
\* hexadecimal digits
C24_ShortValuesKept ==
    (semPhase = "redacted" /\ semMode = "bare"
     /\ \A i \in 1..Len(semEntities) : Len(normalizeForKey(semEntities[i].text)) <= 2) =>
        \A i \in 1..Len(semEntities) :
            \E k \in 1..Len(semanticMap) :
                semanticMap[k][2].canonical = normalizeForKey(semEntities[i].text)


(***************************************************************************)
(* Tokens of deterministic positional redaction.                           *)
(***************************************************************************)
\* the key under which the redactor that produced redactedText records e
tokenKey(e) ==
    IF engine = "lib" THEN redactToken(e, TRUE, <<>>)
    ELSE makePlaceholder(e.label, e.text, TRUE, <<>>)

\* C25: in deterministic positional redaction two entities with different
\* texts never receive the same token, so no entry of the token ->
\* original_text map is overwritten by another value.
C25_DistinctTextsDistinctTokens ==
    (phase = "redacted" /\ detectedText = inputText) =>
        /\ \A i, j \in 1..Len(detectedEntities) :
              detectedEntities[i].text # detectedEntities[j].text
              => tokenKey(detectedEntities[i]) # tokenKey(detectedEntities[j])
        /\ \A i \in 1..Len(detectedEntities) :
              MapHas(redactionMap, tokenKey(detectedEntities[i]))
              => MapGet(redactionMap, tokenKey(detectedEntities[i])) = detectedEntities[i].text

\* C25 for redactText of part_000 on the documents of the model
C25_LibTokensDistinct ==
    (phase = "redacted" /\ detectedText = inputText /\ engine = "lib") =>
        \A i, j \in 1..Len(detectedEntities) :
            detectedEntities[i].text # detectedEntities[j].text
            => tokenKey(detectedEntities[i]) # tokenKey(detectedEntities[j])


(***************************************************************************)
(* reconcile on candidates that are spans of one address line.             *)
(***************************************************************************)
\* "12 Osborne Road Marrickville NSW 2204 Sydney Australia"
ADDRESS_LINE ==
    <<49, 50, 32, 79, 115, 98, 111, 114, 110, 101, 32, 82, 111, 97, 100, 32, 77, 97,
      114, 114, 105, 99, 107, 118, 105, 108, 108, 101, 32, 78, 83, 87, 32, 50, 50, 48,
      52, 32, 83, 121, 100, 110, 101, 121, 32, 65, 117, 115, 116, 114, 97, 108, 105,
      97>>

\* the spans detectors report on it as ADDRESS: "12 Osborne Road",
\* "Osborne Road", "Marrickville", "Marrickville NSW", "2204", the line up to
\* the postcode and the line from the state on
AddressSpans ==
    {<<0, 15>>, <<3, 15>>, <<16, 28>>, <<16, 32>>, <<33, 37>>, <<0, 37>>, <<29, 54>>}

\* and as PERSON: "Osborne Road", "Marrickville"
PersonSpans == {<<3, 15>>, <<16, 28>>}

SpanScores == {<<NoScore, "regex">>, <<90, "model">>}

spanText(sp) == SubSeq(ADDRESS_LINE, sp[1] + 1, sp[2])

SpanCands ==
    {Candidate(<<"ADDRESS", spanText(sp), sp>>, sc[1], sc[2]) :
        sp \in AddressSpans, sc \in SpanScores}
    \cup {Candidate(<<"PERSON", spanText(sp), sp>>, sc[1], sc[2]) :
        sp \in PersonSpans, sc \in SpanScores}

\* the caller collects one more candidate before it calls reconcile
PushSpan ==
    /\ recPhase = "collecting"
    /\ Len(candidates) < MaxBatch
    /\ \E c \in SpanCands : candidates' = Append(candidates, c)
    /\ UNCHANGED <<recCall, recAccepted, recResult, recPhase>>
    /\ UNCHANGED <<posVars, semVars, vaultVars, hostVars>>

SpanNext == PushSpan \/ Reconcile

SpecSpans == RecInit /\ [][SpanNext]_vars

\* C26: in the list accepted by the overlap resolution, any two entities
\* whose overlap ratio is >= 0.4 have different labels and one of them is a
\* PERSON of at least 2 tokens; every other pair overlaps by less than 0.4.
C26_AcceptedPairsResolved ==
    recPhase = "reconciled" =>
        \A i, j \in 1..Len(recAccepted) :
            i < j => (minorOverlap(recAccepted[i], recAccepted[j])
                      \/ ruleB(recAccepted[i], recAccepted[j]))

\* C26 for the runs of reconcile in which no accepted entity is replaced
\* in place: every accepted entity is then compared with all before it
C26_WithoutReplacement ==
    (recPhase = "reconciled"
     /\ \A i \in 1..Len(recAccepted) : \A j \in 1..Len(recAccepted) :
           i < j => recAccepted[i].start <= recAccepted[j].start) =>
        \A i, j \in 1..Len(recAccepted) :
            i < j => (minorOverlap(recAccepted[i], recAccepted[j])
                      \/ ruleB(recAccepted[i], recAccepted[j]))

\* the list the address collapse starts from
BeforeCollapse == dedupePersons(dedupeExact(recAccepted))

\* C27: in reconcile's output no two consecutive ADDRESS entities are
\* separated by fewer than 5 characters: each such run has been merged into
\* one ADDRESS entity that spans from the smallest start to the largest end
\* of the merged entities, with start < end.
C27_AddressRunsMerged ==
    recPhase = "reconciled" =>
        /\ \A i \in 2..Len(recResult) :
              ~(/\ recResult[i - 1].label = "ADDRESS" /\ recResult[i].label = "ADDRESS"
                /\ recResult[i].start - recResult[i - 1].end < 5)
        /\ \A i \in 1..Len(recResult) : recResult[i].start < recResult[i].end
        /\ \A k \in 1..Len(BeforeCollapse) :
              BeforeCollapse[k].label = "ADDRESS" =>
                 \E i \in 1..Len(BeforeUnique) :
                    /\ BeforeUnique[i].label = "ADDRESS"
                    /\ BeforeUnique[i].start <= BeforeCollapse[k].start
                    /\ BeforeCollapse[k].end <= BeforeUnique[i].end

\* C27 without the span of the merged entity: no run is left unmerged
C27_NoAdjacentAddresses ==
    recPhase = "reconciled" =>
        \A i \in 2..Len(recResult) :
            ~(/\ recResult[i - 1].label = "ADDRESS" /\ recResult[i].label = "ADDRESS"
              /\ recResult[i].start - recResult[i - 1].end < 5)

(***************************************************************************)
(* Manual redaction in the semantic component: handleTextSelection,        *)
(* handleManualRedact and handleUnredact on the redacted textarea.         *)
(***************************************************************************)
MaxManual == 1

T_REDACTED_MANUAL ==
    <<91, 82, 69, 68, 65, 67, 84, 69, 68, 95, 77, 65, 78, 85, 65, 76, 95>>
                                                            \* "[REDACTED_MANUAL_"
T_MANUAL == <<77, 65, 78, 85, 65, 76, 95>>                  \* "MANUAL_"

\* String(n) of a non-negative integer
RECURSIVE numberString(_)
numberString(n) ==
    IF n < 10 THEN <<48 + n>> ELSE numberString(n \div 10) \o <<48 + (n % 10)>>

\* s.padStart(n, c) with a one-character pad
padStart(s, n, c) == IF Len(s) >= n THEN s ELSE [i \in 1..(n - Len(s)) |-> c] \o s

\* the entries handleManualRedact has added
manualCount(map) ==
    Cardinality({i \in 1..Len(map) : startsWithAt(map[i][1], 0, T_MANUAL)})

ManualWords == {W_AL_UPPER, W_CARD}

ManualInit ==
    /\ SemStart(SemDocsOf(ManualWords))
    /\ ~irreversible
    /\ PosIdle /\ RecIdle /\ VaultIdle /\ HostIdle

\* the selections tried: each word of the text (a maximal run without a space
\* or a line break)
isBreak(c) == c = 32 \/ c = 10

Selections(text) ==
    LET starts == {i \in 0..(Len(text) - 1) :
                      ~isBreak(text[i + 1]) /\ (i = 0 \/ isBreak(text[i]))}
        wordEnd(i) == CHOOSE j \in (i + 1)..Len(text) :
                          /\ \A k \in (i + 1)..j : ~isBreak(text[k])
                          /\ (j = Len(text) \/ isBreak(text[j + 1]))
    IN  {<<i, wordEnd(i)>> : i \in starts}

\* handleTextSelection: the textarea reports its selection; an empty one is
\* ignored
HandleTextSelection ==
    /\ semRedacted # <<>>
    /\ manualCount(semanticMap) < MaxManual
    /\ \E sel \in Selections(semRedacted) \cup {<<0, 0>>} :
          LET start == sel[1]
              end   == sel[2]
              text  == substring(semRedacted, start, end)
          IN  IF Len(text) > 0
              THEN selection' = [selectedText |-> text, selectionStart |-> start,
                                 selectionEnd |-> end]
              ELSE UNCHANGED selection
    /\ UNCHANGED <<semInput, semEntities, irreversible, semRedacted, semanticMap,
                   semMode, semMapArg, semUnredacted, toast, semPhase>>
    /\ UNCHANGED <<posVars, recVars, vaultVars, hostVars>>

\* handleManualRedact; its button is disabled in irreversible mode
HandleManualRedact ==
    /\ ~irreversible
    /\ IF selection.selectedText = <<>> \/ selection.selectionStart = selection.selectionEnd
       THEN /\ toast' = "No Text Selected"
            /\ UNCHANGED <<semanticMap, semRedacted, selection, semPhase>>
       ELSE LET manualIndex == Len(semanticMap) + 1
                manualPlaceholder == T_REDACTED_MANUAL
                                   \o padStart(numberString(manualIndex), 3, 48)
                                   \o RBRACKET
            IN  /\ semanticMap' =
                       MapSet(semanticMap, T_MANUAL \o numberString(manualIndex),
                              [label |-> "OTHER", full |-> selection.selectedText,
                               canonical |-> toLowerCase(selection.selectedText)])
                /\ semRedacted' =
                       substring(semRedacted, 0, selection.selectionStart)
                           \o manualPlaceholder
                           \o substring(semRedacted, selection.selectionEnd,
                                        Len(semRedacted))
                /\ selection' = NoSelection
                /\ toast' = "Manual Redaction Added"
                /\ semPhase' = "redacted"
    /\ UNCHANGED <<semInput, semEntities, irreversible, semMode, semMapArg, semUnredacted>>
    /\ UNCHANGED <<posVars, recVars, vaultVars, hostVars>>

\* the forEach of handleUnredact: split/join of each variant of each entry
RECURSIVE unredactEntries(_, _, _)
unredactEntries(result, map, i) ==
    IF i > Len(map) THEN result
    ELSE LET key   == map[i][1]
             entry == map[i][2]
             pat(v) == LBRACKET \o key \o COLON \o v \o RBRACKET
             r1 == splitJoin(result, pat(V_FULL), entry.full)
             r2 == IF "first" \in DOMAIN entry
                   THEN splitJoin(r1, pat(V_FIRST), entry.first) ELSE r1
             r3 == IF "last" \in DOMAIN entry
                   THEN splitJoin(r2, pat(V_LAST), entry.last) ELSE r2
         IN  unredactEntries(r3, map, i + 1)

\* handleUnredact, useSemantic being true
HandleUnredact ==
    /\ semRedacted # <<>>
    /\ semRedacted' = unredactEntries(semRedacted, semanticMap, 1)
    /\ toast' = "Unredaction Complete"
    /\ semPhase' = "unredacted"
    /\ UNCHANGED <<semInput, semEntities, irreversible, semanticMap, semMode, semMapArg,
                   semUnredacted, selection>>
    /\ UNCHANGED <<posVars, recVars, vaultVars, hostVars>>

ManualNext ==
    SemDetect \/ SemRedact \/ HandleTextSelection \/ HandleManualRedact \/ HandleUnredact

SpecManual == ManualInit /\ [][ManualNext]_vars

\* C28: once the session's text has been unredacted with the session's map,
\* no placeholder of a manual redaction is left in it: the entry the manual
\* redaction added resolves the placeholder it wrote
C28_ManualRedactionResolved ==
    semPhase = "unredacted" => ~contains(semRedacted, T_REDACTED_MANUAL)

\* what the code does instead: handleUnredact neither removes nor adds a
\* manual placeholder
C28_ManualPlaceholdersKept ==
    [][HandleUnredact => occurrences(semRedacted', T_REDACTED_MANUAL)
                             = occurrences(semRedacted, T_REDACTED_MANUAL)]_vars

(***************************************************************************)
(* BrowserPIIDetector.initialize and detectPII as interleaved async calls. *)
(* A call is a record [fn, pc]: fn is the outer function ("handleInitialize"*)
(* awaiting detector.initialize, or "detectPII"), pc the await it is       *)
(* suspended at.  A call that has finished leaves `calls`.                 *)
(***************************************************************************)
MaxCalls == 3
MaxInvoke == 2

Call(fn, pc) == [fn |-> fn, pc |-> pc]

withoutCall(cs, i) == [k \in 1..(Len(cs) - 1) |-> IF k < i THEN cs[k] ELSE cs[k + 1]]

pendingDetect(cs) == Cardinality({k \in 1..Len(cs) : cs[k].fn = "detectPII"})

\* what the detector specifications leave alone
DetFrame ==
    /\ UNCHANGED <<semInput, semEntities, irreversible, semRedacted, semanticMap, semMode,
                   semMapArg, semUnredacted, selection, semPhase>>
    /\ UNCHANGED <<posVars, recVars, vaultVars, picked, loadLog>>

DetInit == PosIdle /\ RecIdle /\ SemIdle /\ VaultIdle /\ HostIdle

\* initialize() up to its first await, run on behalf of the call fn
initializeStart(fn) ==
    IF classifier # "null" \/ isLoading
    THEN /\ calls' = Append(calls, Call(fn, "initReturned"))
         /\ UNCHANGED isLoading
    ELSE /\ isLoading' = TRUE
         /\ calls' = Append(calls, Call(fn, "webgpu"))

\* handleInitialize up to `await detectorRef.current.initialize(...)`
CallHandleInitialize ==
    /\ Len(calls) < MaxCalls
    /\ initializeStart("handleInitialize")
    /\ UNCHANGED <<classifier, invoked, toast>>
    /\ DetFrame

\* detectPII up to its first await
CallDetectPII ==
    /\ Len(calls) < MaxCalls
    /\ Len(invoked) + pendingDetect(calls) < MaxInvoke
    /\ IF classifier = "null"
       THEN /\ initializeStart("detectPII")
            /\ UNCHANGED invoked
       ELSE /\ invoked' = Append(invoked, classifier)
            /\ calls' = Append(calls, Call("detectPII", "classifying"))
            /\ UNCHANGED isLoading
    /\ UNCHANGED <<classifier, toast>>
    /\ DetFrame

\* the pending pipeline(...) promise resolves: the rest of initialize runs
PipelineResolves ==
    /\ \E i \in 1..Len(calls) :
          /\ calls[i].pc \in {"webgpu", "cpu"}
          /\ calls' = [calls EXCEPT ![i].pc = "initReturned"]
    /\ classifier' = "loaded"
    /\ isLoading' = FALSE
    /\ UNCHANGED <<invoked, toast>>
    /\ DetFrame

\* the pending pipeline(...) promise rejects: the WebGPU attempt falls back
\* to the CPU pipeline, the CPU attempt lets the exception leave initialize
PipelineRejects ==
    /\ \E i \in 1..Len(calls) :
          \/ /\ calls[i].pc = "webgpu"
             /\ calls' = [calls EXCEPT ![i].pc = "cpu"]
          \/ /\ calls[i].pc = "cpu"
             /\ calls' = [calls EXCEPT ![i].pc = "threw"]
    /\ UNCHANGED <<classifier, isLoading, invoked, toast>>
    /\ DetFrame

\* the caller resumes after `await initialize()`
AfterInitialize ==
    /\ \E i \in 1..Len(calls) :
          /\ calls[i].pc = "initReturned"
          /\ IF calls[i].fn = "handleInitialize"
             THEN /\ toast' = "AI Model Ready"
                  /\ calls' = withoutCall(calls, i)
                  /\ UNCHANGED invoked
             ELSE /\ invoked' = Append(invoked, classifier)
                  /\ calls' = [calls EXCEPT ![i].pc =
                                   IF classifier = "null" THEN "threw" ELSE "classifying"]
                  /\ UNCHANGED toast
    /\ UNCHANGED <<classifier, isLoading>>
    /\ DetFrame

\* this.classifier(text, ...) resolves and detectPII returns its entities
ClassifierReturns ==
    /\ \E i \in 1..Len(calls) :
          /\ calls[i].pc = "classifying"
          /\ calls' = withoutCall(calls, i)
    /\ UNCHANGED <<classifier, isLoading, invoked, toast>>
    /\ DetFrame

\* an exception reaches the caller: the catch of handleInitialize, or the
\* catch of handleDetect around detectAll
Throws ==
    /\ \E i \in 1..Len(calls) :
          /\ calls[i].pc = "threw"
          /\ toast' = IF calls[i].fn = "handleInitialize"
                      THEN "Initialization Failed" ELSE "Detection Failed"
          /\ calls' = withoutCall(calls, i)
    /\ UNCHANGED <<classifier, isLoading, invoked>>
    /\ DetFrame

DetNext ==
    \/ CallHandleInitialize
    \/ CallDetectPII
    \/ PipelineResolves
    \/ PipelineRejects
    \/ AfterInitialize
    \/ ClassifierReturns
    \/ Throws

SpecDetector == DetInit /\ [][DetNext]_vars

\* C29: the classifier is never called as a function while it is null
C29_NeverInvokedWhileNull ==
    \A k \in 1..Len(invoked) : invoked[k] # "null"

\* what the code does guarantee: a detectPII call that starts when the model
\* is loaded invokes the loaded model
C29_LoadedAtCallIsInvoked ==
    [][(CallDetectPII /\ classifier # "null")
           => invoked' = Append(invoked, "loaded")]_vars

(***************************************************************************)
(* The detector under fair scheduling: every pending promise settles and   *)
(* every continuation runs, the user keeps asking for the model, and a     *)
(* load that is attempted again and again succeeds at some attempt.        *)
(***************************************************************************)
DetFair ==
    /\ WF_vars(CallHandleInitialize)
    /\ WF_vars(PipelineResolves \/ PipelineRejects)
    /\ SF_vars(PipelineResolves)
    /\ WF_vars(AfterInitialize)
    /\ WF_vars(ClassifierReturns)
    /\ WF_vars(Throws)

SpecDetectorFair == DetInit /\ [][DetNext]_vars /\ DetFair

\* initialize has failed on the WebGPU attempt and on the CPU fallback
BothAttemptsFailed == \E i \in 1..Len(calls) : calls[i].pc = "threw" /\ classifier = "null"

\* C30: after initialize has failed on both attempts, the detector becomes
\* initialised by a later attempt
C30_FailedLoadIsRetried == BothAttemptsFailed ~> (classifier = "loaded")

\* isLoading is true only while some call is loading the model
Loading == \E i \in 1..Len(calls) : calls[i].pc \in {"webgpu", "cpu"}

C30_LoadingFlagFollowsLoad == isLoading => Loading

\* what the code does instead: once both attempts have failed with
\* isLoading left true, the detector is never initialised
C30_StuckAfterFailure ==
    [][(isLoading /\ ~Loading) => (isLoading' /\ classifier' = "null" /\ ~Loading')]_vars

====
